---- MODULE Spec2Model ----
(***************************************************************************)
(* Model of the endpoints generated by generate_api                        *)
(* (flask_peewee_restful/api_generator.py) over a SQLite-backed table, of  *)
(* the dictionary-backed endpoints, of Client.upsert, and of the codecs    *)
(* and codec derivers of gena and flask_peewee_restful.                    *)
(*                                                                         *)
(* Strings of the request (parameter names and values) are sequences of    *)
(* tokens: a token is a maximal run of [a-zA-Z_0-9] characters (a word)    *)
(* or one punctuation character.  Str gives the string a token sequence    *)
(* spells; the empty sequence is the empty string.                         *)
(***************************************************************************)
EXTENDS Integers, Sequences, FiniteSets, TLC

\* ------------------------------------------------------------------ bounds
MaxRows == 2

MaxVal == 2

\* --------------------------------------------------------- program constants
default_limit == <<"50">>

op_fields == {"fields", "limit", "offset", "unique", "sorted_by", "group_by"}

\* The model class handed to generate_api: column name -> storage kind.
name2field ==
  [id |-> "int", v |-> "int", status |-> "str"]

FieldNames == DOMAIN name2field

\* ------------------------------------------------------------------ strings
Punct == {",", "[", "]", "-", "!"}

RECURSIVE Str(_)
Str(toks) ==
  IF toks = <<>> THEN "" ELSE Head(toks) \o Str(Tail(toks))

\* Words that contain a character outside [a-zA-Z0-9] (an underscore).
UnderscoreWords == {"g_t", "sorted_by", "group_by"}

IsWord(tok) == tok \notin Punct

IsOpWord(tok) == IsWord(tok) /\ tok \notin UnderscoreWords

\* str.split(","): the pieces between the commas; never an empty list.
RECURSIVE Split(_)
Split(toks) ==
  IF toks = <<>> THEN << <<>> >>
  ELSE LET rest == Split(Tail(toks))
       IN IF Head(toks) = ","
          THEN << <<>> >> \o rest
          ELSE << <<Head(toks)>> \o rest[1] >> \o Tail(rest)

\* Binary collation of the strings that occur as text values.
Collation ==
  <<"", "1", "1,2", "2", "a", "a,b", "b", "status", "status,v", "v", "x", "zz">>

StrRank(s) == CHOOSE i \in 1..Len(Collation) : Collation[i] = s

\* int(str) of Python on the numerals of the model.
IntLiterals == <<"0", "1", "2", "3", "50">>

IntValues == <<0, 1, 2, 3, 50>>

IsIntLiteral(toks) ==
  Len(toks) = 1 /\ \E i \in 1..Len(IntLiterals) : IntLiterals[i] = toks[1]

IntOf(toks) ==
  IntValues[CHOOSE i \in 1..Len(IntLiterals) : IntLiterals[i] = toks[1]]

\* ------------------------------------------------------------- field_reg
NoOp == "None"

NoMatch == [matched |-> FALSE, name |-> "", op |-> NoOp]

\* field_reg.match(name): anchored at the start only.  The name group takes
\* the leading word; the optional group takes "[" word "]" right after it.
field_reg_match(toks) ==
  IF toks = <<>> \/ ~IsWord(toks[1]) THEN NoMatch
  ELSE [matched |-> TRUE,
        name |-> toks[1],
        op |-> IF /\ Len(toks) >= 4
                  /\ toks[2] = "["
                  /\ IsOpWord(toks[3])
                  /\ toks[4] = "]"
               THEN toks[3] ELSE NoOp]

\* ----------------------------------------------------------- deserializers
DeserFail == [ok |-> FALSE]

deserialize_int(value) ==
  IF IsIntLiteral(value) THEN [ok |-> TRUE, val |-> IntOf(value)] ELSE DeserFail

deserialize_str(value) == [ok |-> TRUE, val |-> Str(value)]

\* generate_deserializer(Model): one deserializer per column.
deserializers(name, value) ==
  IF name2field[name] = "int" THEN deserialize_int(value) ELSE deserialize_str(value)

\* ------------------------------------------------------------ request.args
\* request.args is a sequence of <<name, value>> pairs in query-string order.
ArgHas(args, key) ==
  \E i \in 1..Len(args) : Str(args[i][1]) = key

\* request.args[key]: the first value given for the key.
ArgGet(args, key) ==
  args[CHOOSE i \in 1..Len(args) :
         /\ Str(args[i][1]) = key
         /\ \A j \in 1..(i - 1) : Str(args[j][1]) # key][2]

\* request.args.items(): each key once, with its first value.
RECURSIVE ArgItemsFrom(_, _)
ArgItemsFrom(args, i) ==
  IF i > Len(args) THEN <<>>
  ELSE (IF \E j \in 1..(i - 1) : Str(args[j][1]) = Str(args[i][1])
        THEN <<>> ELSE <<args[i]>>) \o ArgItemsFrom(args, i + 1)

ArgItems(args) == ArgItemsFrom(args, 1)

\* ------------------------------------------------------------- responses
Err(kind) == [kind |-> kind, items |-> <<>>, total |-> 0]

Ok(items, total) == [kind |-> "ok", items |-> items, total |-> total]

\* ------------------------------------------------- select / order / group
\* fields=a,b : the names, each looked up in name2field.
FieldNamesOf(args) ==
  IF ArgHas(args, "fields")
  THEN LET ps == Split(ArgGet(args, "fields"))
       IN [i \in 1..Len(ps) |-> Str(ps[i])]
  ELSE <<>>

LimitRaw(args) ==
  IF ArgHas(args, "limit") THEN ArgGet(args, "limit") ELSE default_limit

OffsetRaw(args) ==
  IF ArgHas(args, "offset") THEN ArgGet(args, "offset") ELSE <<"0">>

Unique(args) ==
  ArgHas(args, "unique") /\ Str(ArgGet(args, "unique")) = "true"

\* sorted_by=a,-b : one entry per piece, "-" prefix means descending.
OrderBy(args) ==
  IF ArgHas(args, "sorted_by")
  THEN LET ps == Split(ArgGet(args, "sorted_by"))
       IN [i \in 1..Len(ps) |->
             IF ps[i] # <<>> /\ ps[i][1] = "-"
             THEN [name |-> Str(Tail(ps[i])), desc |-> TRUE]
             ELSE [name |-> Str(ps[i]), desc |-> FALSE]]
  ELSE <<>>

GroupBy(args) ==
  IF ArgHas(args, "group_by")
  THEN LET ps == Split(ArgGet(args, "group_by"))
       IN [i \in 1..Len(ps) |-> Str(ps[i])]
  ELSE <<>>

\* ---------------------------------------------------------- where clause
\* First loop: the non-reserved parameters, parsed by field_reg.
RECURSIVE DropReserved(_)
DropReserved(items) ==
  IF items = <<>> THEN <<>>
  ELSE (IF Str(Head(items)[1]) \in op_fields THEN <<>> ELSE <<Head(items)>>)
       \o DropReserved(Tail(items))

FilterParams(args) == DropReserved(ArgItems(args))

ParsedFilters(args) ==
  LET ps == FilterParams(args)
  IN [i \in 1..Len(ps) |->
        LET m == field_reg_match(ps[i][1])
        IN [matched |-> m.matched, name |-> m.name, op |-> m.op, value |-> ps[i][2]]]

FilterNameError(args) ==
  \E i \in 1..Len(ParsedFilters(args)) :
     LET p == ParsedFilters(args)[i]
     IN ~p.matched \/ p.name \notin FieldNames

\* filter_fields: a dict keyed by field name in order of first appearance,
\* each key holding its (op, value) pairs in order; flattened in the order
\* the second loop visits them.
RECURSIVE FilterFieldsFrom(_, _)
FilterFieldsFrom(parsed, i) ==
  IF i > Len(parsed) THEN <<>>
  ELSE (IF \E j \in 1..(i - 1) : parsed[j].name = parsed[i].name
        THEN <<>>
        ELSE SelectSeq(parsed, LAMBDA e : e.name = parsed[i].name))
       \o FilterFieldsFrom(parsed, i + 1)

filter_fields(args) == FilterFieldsFrom(ParsedFilters(args), 1)

CompareOps == {NoOp, "gt", "gte", "lt", "lte"}

\* What the second loop raises on entry i, or "none".
EntryError(ordered, i) ==
  LET e == ordered[i]
  IN IF e.op = "max"
     THEN IF \E j \in 1..(i - 1) : ordered[j].name = e.name /\ ordered[j].op = "max"
          THEN "AssertionError" ELSE "none"
     ELSE IF e.op = "in"
     THEN IF \E k \in 1..Len(Split(e.value)) :
               ~deserializers(e.name, Split(e.value)[k]).ok
          THEN "ValueError" ELSE "none"
     ELSE IF ~deserializers(e.name, e.value).ok THEN "ValueError"
     ELSE IF e.op \in CompareOps THEN "none"
     ELSE "BadRequest"

FirstEntryError(ordered) ==
  IF \A i \in 1..Len(ordered) : EntryError(ordered, i) = "none" THEN "none"
  ELSE EntryError(ordered,
         CHOOSE i \in 1..Len(ordered) :
           /\ EntryError(ordered, i) # "none"
           /\ \A j \in 1..(i - 1) : EntryError(ordered, j) = "none")

\* conditions: one entry per filter that is not a pending aggregation.
Condition(e) ==
  IF e.op = "in"
  THEN [field |-> e.name, op |-> "in",
        value |-> {deserializers(e.name, Split(e.value)[k]).val :
                     k \in 1..Len(Split(e.value))}]
  ELSE [field |-> e.name, op |-> IF e.op = NoOp THEN "eq" ELSE e.op,
        value |-> deserializers(e.name, e.value).val]

Conditions(ordered) ==
  LET cs == SelectSeq(ordered, LAMBDA e : e.op # "max")
  IN [i \in 1..Len(cs) |-> Condition(cs[i])]

\* pending_ops: field name -> {"max": raw grouping list}.
PendingOps(ordered) ==
  LET ms == SelectSeq(ordered, LAMBDA e : e.op = "max")
  IN [i \in 1..Len(ms) |-> [name |-> ms[i].name, op |-> "max", value |-> ms[i].value]]

\* ------------------------------------------------------------- the store
\* The table as a function id -> column values; its rows as records.
Rows(tbl) ==
  {[id |-> i, v |-> tbl[i].v, status |-> tbl[i].status] : i \in DOMAIN tbl}

\* Column order of the store: integers by value, text by binary collation.
Less(kind, a, b) ==
  IF kind = "int" THEN a < b ELSE StrRank(a) < StrRank(b)

\* One expression of the where clause, evaluated on a row.
Sat(r, c) ==
  LET x == r[c.field]
      k == name2field[c.field]
  IN CASE c.op = "eq" -> x = c.value
       [] c.op = "gt" -> Less(k, c.value, x)
       [] c.op = "gte" -> ~Less(k, x, c.value)
       [] c.op = "lt" -> Less(k, x, c.value)
       [] c.op = "lte" -> ~Less(k, c.value, x)
       [] c.op = "in" -> x \in c.value

\* query.where(*conditions): the conjunction of all of them.
Where(rows, conds) ==
  {r \in rows : \A i \in 1..Len(conds) : Sat(r, conds[i])}

Min2(a, b) == IF a < b THEN a ELSE b

Perms(S) ==
  {p \in [1..Cardinality(S) -> S] :
     \A i, j \in 1..Cardinality(S) : i # j => p[i] # p[j]}

\* a sorts strictly before b under the order-by keys.
RowBefore(a, b, order_by) ==
  \E i \in 1..Len(order_by) :
     /\ \A j \in 1..(i - 1) : a[order_by[j].name] = b[order_by[j].name]
     /\ LET n == order_by[i].name
        IN IF order_by[i].desc
           THEN Less(name2field[n], b[n], a[n])
           ELSE Less(name2field[n], a[n], b[n])

IsSorted(seq, order_by) ==
  \A i, j \in 1..Len(seq) : i < j => ~RowBefore(seq[j], seq[i], order_by)

\* The orders in which the store may yield the rows: any order that obeys
\* the order-by keys (unspecified among ties and without order by).
Orderings(rs, order_by) ==
  {p \in Perms(rs) : IsSorted(p, order_by)}

\* Model.select(*fields), serialized and cut to field_names.
Project(r, field_names) ==
  IF field_names = <<>> THEN r
  ELSE [k \in {field_names[i] : i \in 1..Len(field_names)} |-> r[k]]

RECURSIVE Dedupe(_)
Dedupe(seq) ==
  IF seq = <<>> THEN <<>>
  ELSE LET init == Dedupe(SubSeq(seq, 1, Len(seq) - 1))
           last == seq[Len(seq)]
       IN IF \E i \in 1..Len(init) : init[i] = last THEN init ELSE Append(init, last)

\* query.limit(limit).offset(offset)
Page(seq, limit, offset) ==
  SubSeq(seq, offset + 1, Min2(Len(seq), offset + limit))

\* The row sequences the outer select may yield over the row set rs.
Results(rs, order_by, field_names, unique) ==
  {LET proj == [i \in 1..Len(p) |-> Project(p[i], field_names)]
   IN IF unique THEN Dedupe(proj) ELSE proj : p \in Orderings(rs, order_by)}

GroupKey(r, gs) == [i \in 1..Len(gs) |-> r[gs[i]]]

\* ------------------------------------------------------ Plan B (extremum)
\* `gfield in conditions`: conditions is keyed by Field objects and gfield
\* is a str, whose hash differs from every Field's hash: never found.
GFieldInConditions(gfield, conditions) == FALSE

GroupFields(pending) ==
  LET ps == Split(pending.value)
  IN [i \in 1..Len(ps) |-> Str(ps[i])]

InvalidGroupField(pendings) ==
  \E i \in 1..Len(pendings) :
     \E k \in 1..Len(GroupFields(pendings[i])) :
        GroupFields(pendings[i])[k] \notin FieldNames

subquery_group_field_conditions(pending, conditions) ==
  SelectSeq(conditions,
            LAMBDA c : \E k \in 1..Len(GroupFields(pending)) :
                          /\ GroupFields(pending)[k] = c.field
                          /\ GFieldInConditions(c.field, conditions))

\* MaxSubquery with the aggregate dropped: any row of each group.
MaxSubquery_AnyRow(rows, pending, conditions) ==
  LET src == Where(rows, subquery_group_field_conditions(pending, conditions))
      gs == GroupFields(pending)
      keys == {GroupKey(r, gs) : r \in src}
  IN {{c[k] : k \in keys} :
        c \in {c \in [keys -> src] : \A k \in keys : GroupKey(c[k], gs) = k}}

\* SELECT id, MAX(field) ... GROUP BY gs: SQLite yields one row per group,
\* its id taken from a row holding the maximum (any of them on a tie).
\* The sets of rows the sub-query may designate.
MaxSubquery(rows, pending, conditions) ==
  LET src == Where(rows, subquery_group_field_conditions(pending, conditions))
      gs == GroupFields(pending)
      f == pending.name
      keys == {GroupKey(r, gs) : r \in src}
      best(k) == {r \in src : /\ GroupKey(r, gs) = k
                              /\ \A r2 \in src : GroupKey(r2, gs) = k =>
                                    ~Less(name2field[f], r[f], r2[f])}
  IN {{c[k] : k \in keys} : c \in {c \in [keys -> src] : \A k \in keys : c[k] \in best(k)}}

\* query.join(subquery, on=(id == sub.id) & (field == sub.max)), once per
\* pending op: the row sets that may remain.
RECURSIVE JoinPending(_, _, _, _)
JoinPending(rows, cur, pendings, conditions) ==
  IF pendings = <<>> THEN {cur}
  ELSE UNION {JoinPending(rows, cur \cap chosen, Tail(pendings), conditions) :
                chosen \in MaxSubquery(rows, Head(pendings), conditions)}

\* PlanAB with the count taken after limit and offset.
PlanAB_CountAfterLimit(rows, conditions, pendings, order_by, field_names, unique, limit, offset) ==
  UNION {{Ok(Page(res, limit, offset), Len(Page(res, limit, offset))) :
            res \in Results(Where(joined, conditions), order_by, field_names, unique)} :
           joined \in JoinPending(rows, rows, pendings, conditions)}

\* total = query.count(); items = query.limit(limit).offset(offset)
PlanAB(rows, conditions, pendings, order_by, field_names, unique, limit, offset) ==
  UNION {{Ok(Page(res, limit, offset), Len(res)) :
            res \in Results(Where(joined, conditions), order_by, field_names, unique)} :
           joined \in JoinPending(rows, rows, pendings, conditions)}

\* ------------------------------------------------------ Plan C (group by)
\* The grouped sub-query yields one row per group, ordered by the order-by
\* keys read from some row of the group.
GroupOrderings(filtered, group_by, order_by) ==
  LET keys == {GroupKey(r, group_by) : r \in filtered}
  IN {p \in Perms(keys) :
        \E rep \in [keys -> filtered] :
           /\ \A k \in keys : GroupKey(rep[k], group_by) = k
           /\ IsSorted([i \in 1..Len(p) |-> rep[p[i]]], order_by)}

\* PlanC with the total taken as the joined row count.
PlanC_TotalJoined(rows, conditions, group_by, order_by, field_names, unique, limit, offset) ==
  LET filtered == Where(rows, conditions)
  IN UNION {LET paged == Page(go, limit, offset)
                joined == {r \in filtered :
                             \E i \in 1..Len(paged) : GroupKey(r, group_by) = paged[i]}
            IN {Ok(res, Cardinality(joined)) :
                  res \in Results(joined, order_by, field_names, unique)} :
              go \in GroupOrderings(filtered, group_by, order_by)}

\* PlanC with limit and offset left off the grouped sub-query.
PlanC_NoGroupLimit(rows, conditions, group_by, order_by, field_names, unique, limit, offset) ==
  LET filtered == Where(rows, conditions)
      total == Cardinality({GroupKey(r, group_by) : r \in filtered})
  IN {Ok(res, total) : res \in Results(filtered, order_by, field_names, unique)}

PlanC(rows, conditions, group_by, order_by, field_names, unique, limit, offset) ==
  LET filtered == Where(rows, conditions)
      total == Cardinality({GroupKey(r, group_by) : r \in filtered})
  IN UNION {LET paged == Page(go, limit, offset)
                joined == {r \in filtered :
                             \E i \in 1..Len(paged) : GroupKey(r, group_by) = paged[i]}
            IN {Ok(res, total) : res \in Results(joined, order_by, field_names, unique)} :
              go \in GroupOrderings(filtered, group_by, order_by)}

\* ------------------------------------------------------------ the handler
\* GET /<table>: the responses the handler may give to args on table tbl.
get(tbl, args) ==
  LET field_names == FieldNamesOf(args)
      order_by == OrderBy(args)
      group_by == GroupBy(args)
  IN IF \E i \in 1..Len(field_names) : field_names[i] \notin FieldNames
     THEN {Err("KeyError")}
     ELSE IF ~IsIntLiteral(LimitRaw(args)) \/ ~IsIntLiteral(OffsetRaw(args))
     THEN {Err("ValueError")}
     ELSE IF \E i \in 1..Len(order_by) : order_by[i].name \notin FieldNames
     THEN {Err("BadRequest")}
     ELSE IF \E i \in 1..Len(group_by) : group_by[i] \notin FieldNames
     THEN {Err("BadRequest")}
     ELSE IF FilterNameError(args)
     THEN {Err("BadRequest")}
     ELSE LET ordered == filter_fields(args)
              limit == IntOf(LimitRaw(args))
              offset == IntOf(OffsetRaw(args))
          IN IF FirstEntryError(ordered) # "none"
             THEN {Err(FirstEntryError(ordered))}
             ELSE LET conditions == Conditions(ordered)
                      pending_ops == PendingOps(ordered)
                  IN IF Len(group_by) > 0
                     THEN IF Len(pending_ops) > 0
                          THEN {Err("BadRequest")}
                          ELSE PlanC(Rows(tbl), conditions, group_by, order_by,
                                     field_names, Unique(args), limit, offset)
                     ELSE IF InvalidGroupField(pending_ops)
                          THEN {Err("BadRequest")}
                          ELSE PlanAB(Rows(tbl), conditions, pending_ops, order_by,
                                      field_names, Unique(args), limit, offset)

\* ---------------------------------------------------------------- inputs
Statuses == {"", "a", "b"}

RowData == [v : 1..MaxVal, status : Statuses]

Tables == UNION {[S -> RowData] : S \in SUBSET (1..MaxRows)}

P(name, value) == <<name, value>>

Bracket(f, op) == <<f, "[", op, "]">>

BareNames == {<<"v">>, <<"status">>, <<"zz">>}

Ops == {"gt", "gte", "lt", "lte", "in", "max", "min", "foo"}

OpNames == {Bracket(f, op) : f \in {"v", "status"}, op \in Ops}

OtherNames ==
  {<<"status", "[", "gt">>, <<"v", "[", "max", "]", "x">>, <<"v", "!">>,
   <<"[", "gt", "]">>, <<"v", "[", "g_t", "]">>, <<"zz", "[", "gt", "]">>}

Values ==
  {<<>>, <<"1">>, <<"2">>, <<"a">>, <<"status">>, <<"x">>,
   <<"1", ",", "2">>, <<"a", ",", "b">>, <<"status", ",", "v">>}

\* One filter parameter and nothing else.
SingleFilterRequests ==
  {<<P(n, val)>> : n \in BareNames \cup OpNames \cup OtherNames, val \in Values}

Opt(name, vals) == {<<>>} \cup {<<P(<<name>>, val)>> : val \in vals}

SomeFilters ==
  {<<>>, <<P(Bracket("v", "gt"), <<"1">>)>>, <<P(<<"status">>, <<"a">>)>>}

\* Plain-filter requests with pagination, distinct, projection and sorting.
PlainRequests ==
  {l \o o \o u \o f \o s \o w :
     l \in Opt("limit", {<<"1">>}), o \in Opt("offset", {<<"1">>}),
     u \in Opt("unique", {<<"true">>}), f \in Opt("fields", {<<"status">>}),
     s \in Opt("sorted_by", {<<"-", "v">>}), w \in SomeFilters}

\* Requests whose reserved parameters are malformed.
ControlErrorRequests ==
  {c \o w :
     c \in {<<P(<<"limit">>, <<"x">>)>>, <<P(<<"offset">>, <<>>)>>,
            <<P(<<"fields">>, <<"zz">>)>>, <<P(<<"sorted_by">>, <<"zz">>)>>,
            <<P(<<"sorted_by">>, <<"-", "-", "v">>)>>,
            <<P(<<"group_by">>, <<"zz">>)>>, <<P(<<"group_by">>, <<>>)>>},
     w \in {<<>>, <<P(<<"zz">>, <<"1">>)>>, <<P(Bracket("v", "foo"), <<"1">>)>>,
            <<P(Bracket("v", "max"), <<"status">>)>>}}

\* Group-by requests.
GroupByRequests ==
  {<<P(<<"group_by">>, gb)>> \o l \o o \o s \o w :
     gb \in {<<"status">>, <<"status", ",", "v">>, <<"v">>},
     l \in Opt("limit", {<<"0">>, <<"1">>, <<"2">>}), o \in Opt("offset", {<<"1">>}),
     s \in Opt("sorted_by", {<<"-", "v">>}),
     w \in {<<>>, <<P(Bracket("v", "gt"), <<"1">>)>>}}
  \cup
  {<<P(<<"group_by">>, <<"status">>)>> \o l \o u \o f :
     l \in Opt("limit", {<<"1">>}), u \in Opt("unique", {<<"true">>}),
     f \in Opt("fields", {<<"status">>, <<"v">>})}

\* Group-by together with an extremum operator, in both orders.
GroupByExtremumRequests ==
  UNION {{<<P(<<"group_by">>, <<"status">>), P(Bracket(f, op), val)>>,
          <<P(Bracket(f, op), val), P(<<"group_by">>, <<"status">>)>>} :
           f \in {"v", "status", "zz"}, op \in {"max", "min"},
           val \in {<<"status">>, <<"1">>, <<"zz">>}}

\* Extremum requests with pagination and sorting.
ExtremumRequests ==
  {<<P(Bracket("v", "max"), gs)>> \o l \o o \o s :
     gs \in {<<"status">>, <<"status", ",", "v">>},
     l \in Opt("limit", {<<"1">>}), o \in Opt("offset", {<<"1">>}),
     s \in Opt("sorted_by", {<<"-", "v">>, <<"status">>})}

\* Two filter parameters.
PairRequests ==
  {<<P(Bracket("v", "max"), a), P(Bracket("status", "max"), b)>> :
     a \in {<<"status">>, <<"v">>}, b \in {<<"v">>, <<"status">>}}
  \cup
  {<<P(Bracket("v", "max"), <<"status">>), P(n, val)>> :
     n \in {<<"status">>, Bracket("status", "gt"), <<"v">>, Bracket("v", "lt"),
            <<"v", "[", "max", "]", "x">>, Bracket("status", "max")},
     val \in {<<"1">>, <<"a">>, <<"status">>}}
  \cup
  {<<P(a, <<"x">>), P(b, <<"1">>)>> :
     a \in {<<"v">>, Bracket("v", "foo"), <<"zz">>},
     b \in {<<"status">>, Bracket("status", "foo"), <<"zz", "!">>, Bracket("v", "lt")}}
  \cup
  {<<P(<<"v">>, <<"1">>), P(<<"v">>, <<"2">>)>>}

Requests ==
  SingleFilterRequests \cup PlainRequests \cup ControlErrorRequests
  \cup GroupByRequests \cup GroupByExtremumRequests \cup ExtremumRequests
  \cup PairRequests

\* -------------------------------------------------------- API generation
\* Restriction and update of a dictionary (a function on its keys).
Restrict(f, S) == [k \in S |-> f[k]]

DictUpdate(d, e) ==
  [k \in DOMAIN d \cup DOMAIN e |-> IF k \in DOMAIN e THEN e[k] ELSE d[k]]

\* generate_deserializer(Model): the columns whose field class it knows get
\* a deserializer; a column of any other field class is skipped.
generate_deserializer(Model) ==
  LET known == {n \in DOMAIN Model : Model[n] \in {"int", "str"}}
  IN [n \in known |->
        IF Model[n] = "int" THEN "deserialize_int" ELSE "deserialize_str"]

\* The deserializers argument of generate_api: None, or a dictionary.
NotSupplied == [given |-> FALSE, fns |-> <<>>]

Supplied(fns) == [given |-> TRUE, fns |-> fns]

NoApi ==
  [state |-> "none", name2field |-> <<>>, deserializers |-> <<>>,
   supplied |-> NotSupplied]

\* generate_api without the check that every column has a deserializer.
generate_api_Unchecked(Model, supplied) ==
  LET auto == generate_deserializer(Model)
      filled == IF ~supplied.given THEN auto
                ELSE IF DOMAIN Model \ DOMAIN supplied.fns # {}
                     THEN DictUpdate(supplied.fns, auto)
                     ELSE supplied.fns
  IN [state |-> "generated", name2field |-> Model,
      deserializers |-> filled, supplied |-> supplied]

\* generate_api(Model, deserializers): the deserializers the endpoints
\* close over, or the failure raised before any endpoint exists.
generate_api(Model, supplied) ==
  LET auto == generate_deserializer(Model)
      filled == IF ~supplied.given THEN auto
                ELSE IF DOMAIN Model \ DOMAIN supplied.fns # {}
                     THEN DictUpdate(supplied.fns, auto)
                     ELSE supplied.fns
  IN IF DOMAIN Model \ DOMAIN filled # {}
     THEN [state |-> "failed", name2field |-> Model,
           deserializers |-> filled, supplied |-> supplied]
     ELSE [state |-> "generated", name2field |-> Model,
           deserializers |-> filled, supplied |-> supplied]

\* ----------------------------------------------------------------- state
\* table, request, response: the store and the request being served;
\* api: what generate_api built; codec: the codec deriver and its codecs.
VARIABLES table, request, response, api, codec, clients

vars == <<table, request, response, api, codec, clients>>

NoCodec == [phase |-> "none"]

\* No client of the API is at work.
NoClients == <<>>

NoResponse == [kind |-> "none", items |-> <<>>, total |-> 0]

\* The table exists before the API is generated and holds any rows.
Init ==
  /\ table \in Tables
  /\ request = <<>>
  /\ response = NoResponse
  /\ api = generate_api(name2field, NotSupplied)
  /\ codec = NoCodec
  /\ clients = NoClients

\* One GET on the collection, handled from start to end.
GetList ==
  /\ response = NoResponse
  /\ \E args \in Requests :
        \E r \in get(table, args) :
           /\ request' = args
           /\ response' = r
           /\ UNCHANGED <<table, api, codec, clients>>

\* The response leaves the server; the next request can be taken.
Respond ==
  /\ response # NoResponse
  /\ request' = <<>>
  /\ response' = NoResponse
  /\ UNCHANGED <<table, api, codec, clients>>

Next == GetList \/ Respond

Spec == Init /\ [][Next]_vars

\* ----------------------------------------------------------- properties
\* The request grammar: a bare field name, or field[op].
IsBracketName(n) ==
  Len(n) = 4 /\ IsWord(n[1]) /\ n[2] = "[" /\ IsOpWord(n[3]) /\ n[4] = "]"

IsBareName(n) == Len(n) = 1 /\ IsWord(n[1])

KnownOps == {"gt", "gte", "lt", "lte", "in", "max", "min"}

Handled == response # NoResponse

NonReserved(i) == Str(request[i][1]) \notin op_fields

ItemSet == {response.items[i] : i \in 1..Len(response.items)}

\* The rows that satisfy the filters of the request.
Filtered == Where(Rows(table), Conditions(filter_fields(request)))

LimitOf == IF ArgHas(request, "limit") THEN IntOf(ArgGet(request, "limit")) ELSE 50

OffsetOf == IF ArgHas(request, "offset") THEN IntOf(ArgGet(request, "offset")) ELSE 0

\* The request is exactly f[op]=gs on known fields; the rows that achieve
\* the extremum of f in their group.
IsExtremumRequest(op) ==
  /\ Len(request) = 1
  /\ IsBracketName(request[1][1])
  /\ request[1][1][3] = op
  /\ request[1][1][1] \in FieldNames
  /\ \A k \in 1..Len(Split(request[1][2])) : Str(Split(request[1][2])[k]) \in FieldNames

ExtremumGroups ==
  LET ps == Split(request[1][2])
  IN [k \in 1..Len(ps) |-> Str(ps[k])]

MaxRowsOfGroups ==
  LET f == request[1][1][1]
  IN {r \in Rows(table) :
        \A r2 \in Rows(table) :
           GroupKey(r2, ExtremumGroups) = GroupKey(r, ExtremumGroups)
             => ~Less(name2field[f], r[f], r2[f])}

MinRowsOfGroups ==
  LET f == request[1][1][1]
  IN {r \in Rows(table) :
        \A r2 \in Rows(table) :
           GroupKey(r2, ExtremumGroups) = GroupKey(r, ExtremumGroups)
             => ~Less(name2field[f], r2[f], r[f])}

OnePerGroup(S) ==
  \A r \in Rows(table) :
     Cardinality({x \in S : GroupKey(x, ExtremumGroups) = GroupKey(r, ExtremumGroups)}) = 1

\* C1: a list request with group_by and a field[max] or field[min]
\* parameter always ends in a bad-request error.
C1_GroupByWithExtremumRejected ==
  (/\ Handled
   /\ ArgHas(request, "group_by")
   /\ \E i \in 1..Len(request) :
         IsBracketName(request[i][1]) /\ request[i][1][3] \in {"max", "min"})
  => response.kind = "BadRequest"

\* C2: no accepted list request carries more than one aggregation
\* (group_by, field[max], field[min]).
C2_AtMostOneAggregation ==
  response.kind = "ok" =>
    Cardinality({i \in 1..Len(request) :
                   \/ Str(request[i][1]) = "group_by"
                   \/ /\ IsBracketName(request[i][1])
                      /\ request[i][1][3] \in {"max", "min"}}) <= 1

\* C3 as stated: v[max]=status alone (value column v, grouping column
\* status) returns exactly the rows whose v equals the maximum of v among
\* the rows that share their status.
C3_AllMaxRowsReturned ==
  (Handled /\ request = <<P(Bracket("v", "max"), <<"status">>)>>) =>
    response.kind = "ok" /\ ItemSet = MaxRowsOfGroups

\* C3 amended: f[max]=g alone returns one row per group, and that row
\* holds the maximum of f in its group; total counts the groups.
C3_OneMaxRowPerGroup ==
  (Handled /\ IsExtremumRequest("max")) =>
    /\ response.kind = "ok"
    /\ ItemSet \subseteq MaxRowsOfGroups
    /\ OnePerGroup(ItemSet)
    /\ Len(response.items) = Cardinality(ItemSet)
    /\ response.total = Len(response.items)

\* C3 witness: v[max]=status answered on a table where a group holds two
\* rows of different v; the one with the larger v is returned.
C3_Witness ==
  /\ request = <<P(Bracket("v", "max"), <<"status">>)>>
  /\ response.kind = "ok"
  /\ \E r1, r2 \in Rows(table) :
        r1.status = r2.status /\ r1.v < r2.v /\ ItemSet = {r2}

\* C4: f[min]=g1,... on known fields is accepted and returns the rows
\* that achieve the minimum of f in their group.
C4_MinAccepted ==
  (Handled /\ IsExtremumRequest("min")) =>
    /\ response.kind = "ok"
    /\ ItemSet \subseteq MinRowsOfGroups
    /\ OnePerGroup(ItemSet)

\* C5: for a group-by request, total is the number of distinct groups
\* among the rows that satisfy the filters, whatever limit and offset are.
C5_TotalIsGroupCount ==
  (response.kind = "ok" /\ ArgHas(request, "group_by")) =>
    response.total = Cardinality({GroupKey(r, GroupBy(request)) : r \in Filtered})

\* C5 witness: a paged group-by answer with more groups than the limit.
C5_Witness ==
  /\ response.kind = "ok"
  /\ ArgHas(request, "group_by")
  /\ ArgHas(request, "limit")
  /\ LimitOf = 1
  /\ response.total = 2
  /\ Len(response.items) >= 1

\* C6 as stated: a group-by request with limit=N returns at most N items.
C6_AtMostLimitItems ==
  (response.kind = "ok" /\ ArgHas(request, "group_by") /\ ArgHas(request, "limit")) =>
    Len(response.items) <= LimitOf

\* C6 amended: a group-by request with limit=N returns the filtered rows
\* of at most N groups, every row of each of these groups.
C6_AtMostLimitGroups ==
  (response.kind = "ok" /\ ArgHas(request, "group_by") /\ ArgHas(request, "limit")) =>
    \E G \in SUBSET {GroupKey(r, GroupBy(request)) : r \in Filtered} :
       LET inG == {r \in Filtered : GroupKey(r, GroupBy(request)) \in G}
       IN /\ Cardinality(G) <= LimitOf
          /\ ItemSet = {Project(r, FieldNamesOf(request)) : r \in inG}
          /\ ~Unique(request) => Len(response.items) = Cardinality(inG)

\* C6 witness: limit=1 and two rows of the one paged group returned.
C6_Witness ==
  /\ response.kind = "ok"
  /\ ArgHas(request, "group_by")
  /\ ArgHas(request, "limit")
  /\ LimitOf = 1
  /\ Len(response.items) = 2

\* C7: for a plain-filter request, total is the number of rows that
\* satisfy the predicates (distinct rows when unique=true), whatever limit
\* and offset are, and items is the page [offset, offset+limit) of them in
\* the requested order; without filter and with a large enough limit every
\* stored row is returned.
C7_PlainFilterPage ==
  (/\ response.kind = "ok"
   /\ ~ArgHas(request, "group_by")
   /\ PendingOps(filter_fields(request)) = <<>>)
  => LET fn == FieldNamesOf(request)
         keys == OrderBy(request)
         items == response.items
         projected == {Project(r, fn) : r \in Filtered}
         n == IF Unique(request) THEN Cardinality(projected) ELSE Cardinality(Filtered)
         len == IF n - OffsetOf < 0 THEN 0 ELSE Min2(LimitOf, n - OffsetOf)
     IN /\ response.total = n
        /\ Len(items) = len
        /\ \A i \in 1..Len(items) : items[i] \in projected
        /\ fn = <<>> =>
             /\ \A i, j \in 1..Len(items) : i # j => items[i] # items[j]
             /\ \A i \in 1..Len(items) :
                  /\ Cardinality({r \in Filtered : RowBefore(r, items[i], keys)})
                       <= OffsetOf + i - 1
                  /\ Cardinality({r \in Filtered : ~RowBefore(items[i], r, keys)})
                       >= OffsetOf + i
        /\ (/\ FilterParams(request) = <<>>
            /\ fn = <<>>
            /\ OffsetOf = 0
            /\ LimitOf >= Cardinality(DOMAIN table)) => ItemSet = Rows(table)

\* C7 witness: a sorted page of one row out of two, the row with the
\* larger v first under sorted_by=-v.
C7_Witness ==
  /\ response.kind = "ok"
  /\ ~ArgHas(request, "group_by")
  /\ PendingOps(filter_fields(request)) = <<>>
  /\ ArgHas(request, "sorted_by")
  /\ ArgHas(request, "limit")
  /\ FieldNamesOf(request) = <<>>
  /\ Len(response.items) = 1
  /\ response.total = 2
  /\ \E r \in Rows(table) : r.v < response.items[1].v

\* C8: status[in]=v1,v2,... matches exactly the rows whose status is one
\* of the listed values, and no row when the value is empty.
C8_InMatchesListed ==
  (/\ Handled
   /\ Len(request) = 1
   /\ request[1][1] = Bracket("status", "in"))
  => /\ response.kind = "ok"
     /\ ItemSet = IF request[1][2] = <<>> THEN {}
                  ELSE {r \in Rows(table) :
                          \E k \in 1..Len(Split(request[1][2])) :
                             r.status = Str(Split(request[1][2])[k])}

\* C9: a request with a non-reserved parameter on an unknown field, or
\* with a bracket operator outside the known ones, ends in a bad-request
\* error whatever the value.
C9_UnknownFieldOrOpRejected ==
  (/\ Handled
   /\ \E i \in 1..Len(request) :
         /\ NonReserved(i)
         /\ \/ IsBareName(request[i][1]) /\ request[i][1][1] \notin FieldNames
            \/ /\ IsBracketName(request[i][1])
               /\ \/ request[i][1][1] \notin FieldNames
                  \/ request[i][1][3] \notin KnownOps)
  => response.kind = "BadRequest"

\* C10: a request with a non-reserved parameter name that is neither a
\* bare field name nor field[op] ends in a bad-request error.
C10_MalformedNameRejected ==
  (/\ Handled
   /\ \E i \in 1..Len(request) :
         /\ NonReserved(i)
         /\ ~IsBareName(request[i][1])
         /\ ~IsBracketName(request[i][1]))
  => response.kind = "BadRequest"

\* =================================================== record endpoints
\* A JSON value of a request body: a number or a string.
JInt(n) == [k |-> "int", n |-> n]

JStr(toks) == [k |-> "str", s |-> toks]

\* deserializers[name](value): the registry entry applied to a JSON value.
\* caller_int and caller_choice are deserializers written by the caller of
\* generate_api: the first takes JSON integers only, the second the
\* strings "a" and "b" only.
call_deserializer(fn, j) ==
  CASE fn = "deserialize_int" ->
         IF j.k = "int" THEN [ok |-> TRUE, val |-> j.n] ELSE deserialize_int(j.s)
    [] fn = "deserialize_str" ->
         IF j.k = "str" THEN deserialize_str(j.s) ELSE DeserFail
    [] fn = "caller_int" ->
         IF j.k = "int" THEN [ok |-> TRUE, val |-> j.n] ELSE DeserFail
    [] fn = "caller_choice" ->
         IF j.k = "str" /\ Str(j.s) \in {"a", "b"}
         THEN [ok |-> TRUE, val |-> Str(j.s)] ELSE DeserFail

\* Column defaults declared by the model class.
ColumnDefaults == [v |-> 1, status |-> ""]

OkRecord(r) == [kind |-> "ok", items |-> <<r>>, total |-> 1]

RowOf(tbl, i) == [id |-> i, v |-> tbl[i].v, status |-> tbl[i].status]

\* The rowid an INTEGER PRIMARY KEY column gets on insert.
NextId(tbl) ==
  IF DOMAIN tbl = {} THEN 1
  ELSE (CHOOSE i \in DOMAIN tbl : \A j \in DOMAIN tbl : j <= i) + 1

\* The loop over name2field of create and update: the posted fields, each
\* through its deserializer.
PostedFields(a, body) == DOMAIN a.name2field \cap DOMAIN body

Unregistered(a, body) ==
  {n \in PostedFields(a, body) : n \notin DOMAIN a.deserializers}

Failing(a, body) ==
  {n \in PostedFields(a, body) \ Unregistered(a, body) :
     ~call_deserializer(a.deserializers[n], body[n]).ok}

RawRecord(a, body) ==
  [n \in PostedFields(a, body) |->
     call_deserializer(a.deserializers[n], body[n]).val]

ColumnsOf(raw, base) ==
  [c \in DOMAIN ColumnDefaults |-> IF c \in DOMAIN raw THEN raw[c] ELSE base[c]]

Same(tbl, kind) == [response |-> Err(kind), table |-> tbl]

\* GET /<table>/<id>
get_one(tbl, id) ==
  IF IntOf(id) \notin DOMAIN tbl THEN Same(tbl, "NotFound")
  ELSE [response |-> OkRecord(RowOf(tbl, IntOf(id))), table |-> tbl]

\* HEAD /<table>/<id>
has(tbl, id) ==
  IF IntOf(id) \notin DOMAIN tbl THEN Same(tbl, "NotFound")
  ELSE [response |-> Ok(<<>>, 0), table |-> tbl]

\* create that hands the posted id to the store.
create_KeepsId(a, tbl, body) ==
  IF Unregistered(a, body) # {} THEN Same(tbl, "KeyError")
  ELSE IF Failing(a, body) # {} THEN Same(tbl, "ValueError")
  ELSE LET raw == RawRecord(a, body)
           new_id == IF "id" \in DOMAIN raw THEN raw.id ELSE NextId(tbl)
           new_tbl == [i \in DOMAIN tbl \cup {new_id} |->
                         IF i = new_id THEN ColumnsOf(raw, ColumnDefaults)
                         ELSE tbl[i]]
       IN IF new_id \in DOMAIN tbl THEN Same(tbl, "IntegrityError")
          ELSE [response |-> OkRecord(RowOf(new_tbl, new_id)), table |-> new_tbl]

\* POST /<table>
create(a, tbl, body) ==
  IF Unregistered(a, body) # {} THEN Same(tbl, "KeyError")
  ELSE IF Failing(a, body) # {} THEN Same(tbl, "ValueError")
  ELSE LET raw == Restrict(RawRecord(a, body), PostedFields(a, body) \ {"id"})
           new_id == NextId(tbl)
           new_tbl == [i \in DOMAIN tbl \cup {new_id} |->
                         IF i = new_id THEN ColumnsOf(raw, ColumnDefaults)
                         ELSE tbl[i]]
       IN [response |-> OkRecord(RowOf(new_tbl, new_id)), table |-> new_tbl]

\* PUT /<table>/<id>: record.save() updates the row whose id is the id the
\* record holds when it is saved.
update(a, tbl, id, body) ==
  IF IntOf(id) \notin DOMAIN tbl THEN Same(tbl, "NotFound")
  ELSE IF Unregistered(a, body) # {} THEN Same(tbl, "KeyError")
  ELSE IF Failing(a, body) # {} THEN Same(tbl, "ValueError")
  ELSE LET raw == RawRecord(a, body)
           pk == IF "id" \in DOMAIN raw THEN raw.id ELSE IntOf(id)
           cols == ColumnsOf(raw, tbl[IntOf(id)])
           new_tbl == IF pk \in DOMAIN tbl THEN [tbl EXCEPT ![pk] = cols] ELSE tbl
       IN [response |-> OkRecord([id |-> pk, v |-> cols.v, status |-> cols.status]),
           table |-> new_tbl]

\* DELETE /<table>/<id>
delete_by_id(tbl, id) ==
  IF IntOf(id) \notin DOMAIN tbl THEN Same(tbl, "NotFound")
  ELSE [response |-> Ok(<<>>, 0),
        table |-> Restrict(tbl, DOMAIN tbl \ {IntOf(id)})]

\* ------------------------------------------- dictionary-backed endpoints
\* The arguments of generate_readonly_api_4dict.
id2ent ==
  [e1 |-> [id |-> "e1", name |-> "n1"], e2 |-> [id |-> "e2", name |-> "n2"]]

unique_field_funcs == {"name", "code"}

\* unique_field_funcs[field](value): the id the caller's function gives.
unique_field_func(field, value) ==
  CASE field = "name" /\ value = <<"n1">> -> "e1"
    [] field = "name" /\ value = <<"n2">> -> "e2"
    [] field = "code" /\ value = <<"c1">> -> "e1"
    [] OTHER -> Str(value)

op_fields_4dict == {"fields", "limit", "offset", "unique", "sorted_by"}

ProjectPresent(r, field_names) ==
  IF field_names = <<>> THEN r
  ELSE [k \in {field_names[i] : i \in 1..Len(field_names)} \cap DOMAIN r |-> r[k]]

\* GET /<name>?<unique field>=<value>
dict_get(args) ==
  LET items == ArgItems(args)
      lst == SelectSeq([i \in 1..Len(items) |-> Str(items[i][1])],
                       LAMBDA n : n \notin op_fields_4dict)
  IN IF \E i \in 1..Len(lst) : lst[i] \notin unique_field_funcs
     THEN Err("BadRequest")
     ELSE IF Len(lst) > 1 THEN Err("BadRequest")
     ELSE IF Len(lst) = 0 THEN Err("BadRequest")
     ELSE LET id == unique_field_func(lst[1], ArgGet(args, lst[1]))
          IN IF id \notin DOMAIN id2ent THEN Err("KeyError")
             ELSE Ok(<<ProjectPresent(id2ent[id], FieldNamesOf(args))>>, 1)

\* GET /<name>/<id>
find_by_id(id, args) ==
  IF Str(id) \notin DOMAIN id2ent THEN Err("NotFound")
  ELSE OkRecord(ProjectPresent(id2ent[Str(id)], FieldNamesOf(args)))

\* POST /<name>/find_by_ids: the entities of the listed ids that exist, one
\* per listed id, zipped into a dictionary keyed by id.
find_by_ids(body, args) ==
  IF "ids" \notin DOMAIN body THEN Err("BadRequest")
  ELSE LET ids == SelectSeq(body.ids, LAMBDA id : id \in DOMAIN id2ent)
           ents == [i \in 1..Len(ids) |-> id2ent[ids[i]]]
           records == [i \in 1..Len(ents) |-> ProjectPresent(ents[i], FieldNamesOf(args))]
           last(id) == CHOOSE i \in 1..Len(ids) :
                          ids[i] = id /\ \A j \in 1..Len(ids) : ids[j] = id => j <= i
       IN Ok([id \in {ids[i] : i \in 1..Len(ids)} |-> records[last(id)]], Len(ents))

\* A column Model.select did not load.
NotLoaded == "None"

\* POST /<table>/find_by_ids: SELECT id, *fields WHERE id IN ids, in the
\* order of the rowid; a list of records, or with fields= a dictionary
\* keyed by id.
get_by_ids(tbl, body, args) ==
  IF "ids" \notin DOMAIN body THEN Same(tbl, "BadRequest")
  ELSE LET field_names == FieldNamesOf(args)
           names == {field_names[i] : i \in 1..Len(field_names)}
       IN IF names \ FieldNames # {} THEN Same(tbl, "KeyError")
          ELSE LET found == {i \in DOMAIN tbl : \E k \in 1..Len(body.ids) : body.ids[k] = i}
                   loaded(i) == [c \in FieldNames |->
                                   IF c \in names \cup {"id"} THEN RowOf(tbl, i)[c]
                                   ELSE NotLoaded]
                   order == CHOOSE p \in Perms(found) :
                               \A a, b \in 1..Len(p) : a < b => p[a] < p[b]
               IN [response |->
                     IF field_names = <<>>
                     THEN Ok([k \in 1..Len(order) |-> loaded(order[k])], Len(order))
                     ELSE Ok([i \in found |-> ProjectPresent(loaded(i), field_names)],
                             Cardinality(found)),
                   table |-> tbl]

\* ---------------------------------------------------------------- inputs
\* The model classes: status is a text column or a column of a field class
\* generate_deserializer does not know.
Models == {[id |-> "int", v |-> "int", status |-> k] : k \in {"str", "other"}}

CallerFns == [id |-> "caller_int", v |-> "caller_int", status |-> "caller_choice"]

SuppliedDeserializers ==
  {NotSupplied}
  \cup {Supplied(Restrict(CallerFns, S)) :
          S \in {{}, {"v"}, {"status"}, {"id", "v", "status"}}}

UrlIds == {<<"1">>, <<"2">>, <<"50">>}

BodyValues ==
  [id |-> {JInt(2), JStr(<<"x">>)},
   v |-> {JInt(2), JStr(<<"2">>), JStr(<<"x">>)},
   status |-> {JStr(<<"a">>), JInt(1)}]

Bodies ==
  UNION {{[n \in S |-> IF n = "id" THEN i ELSE IF n = "v" THEN w ELSE t] :
            i \in BodyValues.id, w \in BodyValues.v, t \in BodyValues.status} :
         S \in SUBSET {"id", "v", "status"}}

DictRequests ==
  {<<P(<<n>>, val)>> \o f :
     n \in {"name", "code", "zz"}, val \in {<<"n1">>, <<"c1">>, <<"zz">>},
     f \in Opt("fields", {<<"name">>, <<"zz">>})}
  \cup {<<>>, <<P(<<"limit">>, <<"1">>)>>,
        <<P(<<"name">>, <<"n1">>), P(<<"code">>, <<"c1">>)>>}

DictIds == {<<"e1">>, <<"e2">>, <<"zz">>}

\* The JSON bodies of the batch fetches: no ids, unknown ids, an id twice.
IdsBodies ==
  {<<>>} \cup {[ids |-> l] : l \in {<<>>, <<1>>, <<1, 1>>, <<2, 1>>, <<1, 50>>, <<50>>}}

DictIdsBodies ==
  {<<>>} \cup {[ids |-> l] :
                 l \in {<<>>, <<"e1">>, <<"e1", "e1">>, <<"e2", "e1">>, <<"e1", "zz">>}}

Call(handler, id, body, args) ==
  [handler |-> handler, id |-> id, body |-> body, args |-> args]

\* --------------------------------------------------------------- actions
\* Before generate_api is called the store is empty.
InitApi ==
  /\ table = <<>>
  /\ request = <<>>
  /\ response = NoResponse
  /\ api = NoApi
  /\ codec = NoCodec
  /\ clients = NoClients

GenerateApi ==
  /\ api.state = "none"
  /\ \E Model \in Models, supplied \in SuppliedDeserializers :
        api' = generate_api(Model, supplied)
  /\ UNCHANGED <<table, request, response, codec, clients>>

Serving == api.state = "generated" /\ response = NoResponse

GetOne ==
  /\ Serving
  /\ \E id \in UrlIds :
        /\ request' = Call("get_one", id, <<>>, <<>>)
        /\ response' = get_one(table, id).response
        /\ UNCHANGED <<table, api, codec, clients>>

Has ==
  /\ Serving
  /\ \E id \in UrlIds :
        /\ request' = Call("has", id, <<>>, <<>>)
        /\ response' = has(table, id).response
        /\ UNCHANGED <<table, api, codec, clients>>

Create ==
  /\ Serving
  /\ NextId(table) <= MaxRows
  /\ \E body \in Bodies :
        /\ request' = Call("create", <<>>, body, <<>>)
        /\ response' = create(api, table, body).response
        /\ table' = create(api, table, body).table
        /\ UNCHANGED <<api, codec, clients>>

\* An update that records the deserializer it used in the registry.
Update_RegistersDeserializer ==
  /\ Serving
  /\ \E id \in UrlIds, body \in Bodies :
        /\ request' = Call("update", id, body, <<>>)
        /\ response' = update(api, table, id, body).response
        /\ table' = update(api, table, id, body).table
        /\ api' = [api EXCEPT !.deserializers =
                     DictUpdate(@, [n \in {"last"} |-> "deserialize_int"])]
        /\ UNCHANGED <<codec, clients>>

Update ==
  /\ Serving
  /\ \E id \in UrlIds, body \in Bodies :
        /\ request' = Call("update", id, body, <<>>)
        /\ response' = update(api, table, id, body).response
        /\ table' = update(api, table, id, body).table
        /\ UNCHANGED <<api, codec, clients>>

DeleteById ==
  /\ Serving
  /\ \E id \in UrlIds :
        /\ request' = Call("delete_by_id", id, <<>>, <<>>)
        /\ response' = delete_by_id(table, id).response
        /\ table' = delete_by_id(table, id).table
        /\ UNCHANGED <<api, codec, clients>>

DictGet ==
  /\ Serving
  /\ \E args \in DictRequests :
        /\ request' = Call("dict_get", <<>>, <<>>, args)
        /\ response' = dict_get(args)
        /\ UNCHANGED <<table, api, codec, clients>>

DictFindById ==
  /\ Serving
  /\ \E id \in DictIds, args \in {<<>>, <<P(<<"fields">>, <<"name">>)>>} :
        /\ request' = Call("find_by_id", id, <<>>, args)
        /\ response' = find_by_id(id, args)
        /\ UNCHANGED <<table, api, codec, clients>>

GetByIds ==
  /\ Serving
  /\ \E body \in IdsBodies,
        args \in {<<>>, <<P(<<"fields">>, <<"v">>)>>, <<P(<<"fields">>, <<"zz">>)>>} :
        /\ request' = Call("get_by_ids", <<>>, body, args)
        /\ response' = get_by_ids(table, body, args).response
        /\ UNCHANGED <<table, api, codec, clients>>

DictFindByIds ==
  /\ Serving
  /\ \E body \in DictIdsBodies, args \in {<<>>, <<P(<<"fields">>, <<"name">>)>>} :
        /\ request' = Call("find_by_ids", <<>>, body, args)
        /\ response' = find_by_ids(body, args)
        /\ UNCHANGED <<table, api, codec, clients>>

NextApi ==
  \/ GenerateApi
  \/ GetOne
  \/ Has
  \/ Create
  \/ Update
  \/ DeleteById
  \/ DictGet
  \/ DictFindById
  \/ GetByIds
  \/ DictFindByIds
  \/ Respond

SpecApi == InitApi /\ [][NextApi]_vars

\* ------------------------------------------- properties of the endpoints
\* A step in which handler h answers a request.
Answers(h) ==
  /\ response = NoResponse
  /\ response' # NoResponse
  /\ request'.handler = h

\* The request asks the dictionary-backed list endpoint for one unique
\* field and nothing else that is not reserved.
DictLookup(args) ==
  LET names == {Str(args[i][1]) : i \in 1..Len(args)} \ op_fields_4dict
  IN Cardinality(names) = 1 /\ names \subseteq unique_field_funcs

DictLookupId(args) ==
  LET n == CHOOSE n \in unique_field_funcs : ArgHas(args, n)
  IN unique_field_func(n, ArgGet(args, n))

\* C11: a create or update whose body holds a value its field's
\* deserializer refuses ends in a bad-request error.
C11_DeserializerFailureIsBadRequest ==
  (/\ Handled
   /\ request.handler \in {"create", "update"}
   /\ response.kind # "NotFound"
   /\ Failing(api, request.body) # {})
  => response.kind = "BadRequest"

\* C13 as stated: a create whose body carries an id is refused and leaves
\* the table as it was.
C13_CreateWithIdRejected ==
  [][(Answers("create") /\ "id" \in DOMAIN request'.body)
     => (response'.kind # "ok" /\ table' = table)]_vars

\* C13: a create whose body carries an id either fails on a value some
\* deserializer refuses and leaves the table as it was, or adds exactly one
\* row under the id the store assigns, whatever id was posted, and leaves
\* every other row as it was.
C13_CreateIgnoresId ==
  [][(Answers("create") /\ "id" \in DOMAIN request'.body)
     => \/ /\ Failing(api, request'.body) # {}
           /\ response'.kind = "ValueError"
           /\ table' = table
        \/ /\ Failing(api, request'.body) = {}
           /\ response'.kind = "ok"
           /\ DOMAIN table' = DOMAIN table \cup {NextId(table)}
           /\ \A i \in DOMAIN table : table'[i] = table[i]
           /\ response'.items[1] = RowOf(table', NextId(table))]_vars

C13_Witness ==
  /\ Handled
  /\ request.handler = "create"
  /\ "id" \in DOMAIN request.body
  /\ request.body.id = JInt(2)
  /\ response.kind = "ok"
  /\ response.items[1].id = 1
  /\ DOMAIN table = {1}

\* C14: a lookup by an identifier that is not in the table (fetch-one,
\* existence check, update, delete) or not in the dictionary (fetch by id,
\* fetch by unique field) ends in a not-found error.
C14_MissingIdIsNotFound ==
  [][(/\ response = NoResponse
      /\ response' # NoResponse
      /\ \/ /\ request'.handler \in {"get_one", "has", "update", "delete_by_id"}
            /\ IntOf(request'.id) \notin DOMAIN table
         \/ /\ request'.handler = "find_by_id"
            /\ Str(request'.id) \notin DOMAIN id2ent
         \/ /\ request'.handler = "dict_get"
            /\ DictLookup(request'.args)
            /\ DictLookupId(request'.args) \notin DOMAIN id2ent)
     => response'.kind = "NotFound"]_vars

\* C15: in a generated API every deserializer the caller supplied is the
\* registry entry of its field, and every other field has the derived one.
C15_SuppliedDeserializerUsed ==
  (api.state = "generated" /\ api.supplied.given)
  => /\ \A n \in DOMAIN api.supplied.fns :
           api.deserializers[n] = api.supplied.fns[n]
     /\ \A n \in DOMAIN api.name2field \ DOMAIN api.supplied.fns :
           api.deserializers[n] = generate_deserializer(api.name2field)[n]

\* C16: generate_api fails exactly when some column has neither a derived
\* nor a supplied deserializer; a generated API has a deserializer for every
\* column, and no create or update finds a posted field without one.
C16_GeneratedApiIsComplete ==
  /\ api.state # "none"
     => (api.state = "failed"
         <=> \E n \in DOMAIN api.name2field :
                /\ n \notin DOMAIN generate_deserializer(api.name2field)
                /\ ~api.supplied.given \/ n \notin DOMAIN api.supplied.fns)
  /\ api.state = "generated"
     => DOMAIN api.name2field \subseteq DOMAIN api.deserializers
  /\ Handled
     => /\ api.state = "generated"
        /\ request.handler \in {"create", "update"}
           => (Unregistered(api, request.body) = {} /\ response.kind # "KeyError")

C16_Witness ==
  /\ api.state = "failed"
  /\ api.supplied.given
  /\ api.name2field.status = "other"
  /\ "status" \notin DOMAIN api.deserializers

PNone == [k |-> "none"]

PInt(n) == [k |-> "int", n |-> n]

PBool(b) == [k |-> "bool", b |-> b]

PStr(s) == [k |-> "str", s |-> s]

PList(items) == [k |-> "list", items |-> items]

PTuple(items) == [k |-> "tuple", items |-> items]

PSet(elems) == [k |-> "set", elems |-> elems]

\* A dict: a function from its keys to its values.
PDict(map) == [k |-> "dict", map |-> map]

PEnum(cls, member) == [k |-> "enum", cls |-> cls, member |-> member]

\* An instance of a dataclass: attribute name -> value.
PObj(cls, attrs) == [k |-> "obj", cls |-> cls, attrs |-> attrs]

\* A naive datetime: whole milliseconds since 1970-01-01 00:00 on its own
\* clock, and the microseconds beyond them.
PDatetime(ms, us) == [k |-> "datetime", ms |-> ms, us |-> us]

\* isinstance(value, int): bool is a subclass of int.
IsInt(v) == v.k \in {"int", "bool"}

\* -------------------------------------------------------- annotated types
\* str, int, bool, NoneType, datetime, or "object": a class that is none of
\* the kinds the deriver knows.
Ty(k) == [k |-> k]

\* list[...], set[...], dict[...], tuple[...], Union[...], Literal[...]
Generic(origin, args) == [k |-> origin, args |-> args]

Ellipsis == Ty("Ellipsis")

OptionalOf(T) == Generic("Union", <<T, Ty("NoneType")>>)

DataClass(name) == [k |-> "dataclass", name |-> name]

TypedDict(name) == [k |-> "TypedDict", name |-> name]

EnumClass(name) == [k |-> "Enum", name |-> name]

Fld(name, type, has_default, default) ==
  [name |-> name, type |-> type, has_default |-> has_default, default |-> default]

\* The dataclasses of the application: fields(CLS) with get_type_hints(CLS).
dataclass_fields ==
  [B |-> <<Fld("x", Ty("int"), FALSE, PNone)>>,
   A |-> <<Fld("b", DataClass("B"), FALSE, PNone),
           Fld("me", OptionalOf(DataClass("A")), TRUE, PNone)>>,
   Q |-> <<Fld("n", OptionalOf(Ty("int")), FALSE, PNone),
           Fld("d", Ty("int"), TRUE, PInt(0))>>,
   M |-> <<Fld("n", DataClass("N"), FALSE, PNone)>>,
   N |-> <<Fld("m", OptionalOf(DataClass("M")), TRUE, PNone)>>,
   W |-> <<Fld("b1", DataClass("B"), FALSE, PNone),
           Fld("b2", DataClass("B"), FALSE, PNone)>>,
   X |-> <<Fld("b", DataClass("B"), FALSE, PNone),
           Fld("o", Ty("object"), FALSE, PNone)>>,
   R |-> <<Fld("t", OptionalOf(TypedDict("TR")), TRUE, PNone)>>,
   V |-> <<Fld("t", Generic("tuple", <<Ty("int"), Ty("str"), Ellipsis>>), FALSE, PNone)>>,
   C |-> <<Fld("d", DataClass("D"), FALSE, PNone),
           Fld("o", Ty("object"), FALSE, PNone)>>,
   D |-> <<Fld("c", OptionalOf(DataClass("C")), TRUE, PNone)>>]

\* The TypedDicts: __total__ and __annotations__.
typeddicts ==
  [TD |-> [total |-> TRUE, fields |-> <<Fld("x", Ty("int"), FALSE, PNone)>>],
   TE |-> [total |-> TRUE, fields |-> <<>>],
   TN |-> [total |-> FALSE, fields |-> <<Fld("x", Ty("int"), FALSE, PNone)>>],
   TR |-> [total |-> TRUE, fields |-> <<Fld("r", DataClass("R"), FALSE, PNone)>>],
   TX |-> [total |-> TRUE, fields |-> <<Fld("o", Ty("object"), FALSE, PNone)>>]]

\* The enums: member name -> value.
enum_members == [Color |-> [RED |-> PStr("r"), GREEN |-> PStr("g")]]

FieldsOf(T) ==
  IF T.k = "dataclass" THEN dataclass_fields[T.name] ELSE typeddicts[T.name].fields

Primitives == {"str", "int", "float", "bool", "NoneType"}

\* Tuple[T, ...]
IsHomogeneousTuple(T) ==
  T.k = "tuple" /\ Len(T.args) > 1 /\ T.args[Len(T.args)] = Ellipsis

\* ------------------------------------------------- derived deserializers
Return(v) == [ok |-> TRUE, val |-> v]

Raise(kind) == [ok |-> FALSE, err |-> kind, field |-> ""]

\* The ValueError of a record deserializer that names the missing field.
RaiseMissing(field) == [ok |-> FALSE, err |-> "ValueError", field |-> field]

\* int(str) and dateutil's parse on the strings of the model.
IntStrings == ("1" :> 1) @@ ("5" :> 5)

IsoStrings == ("1970-01-01T00:00:00.007" :> PDatetime(7, 0))

gena_deserialize_datetime(value) ==
  IF value.k = "str"
  THEN IF value.s \in DOMAIN IsoStrings THEN Return(IsoStrings[value.s])
       ELSE Raise("ValueError")
  ELSE IF value.k = "int" THEN Return(PDatetime(value.n, 0))
  ELSE IF value.k = "bool" THEN Return(PDatetime(IF value.b THEN 1 ELSE 0, 0))
  ELSE Raise("ValueError")

gena_deserialize_int(value) ==
  IF IsInt(value) THEN Return(value)
  ELSE IF value.k = "str"
       THEN IF value.s \in DOMAIN IntStrings THEN Return(PInt(IntStrings[value.s]))
            ELSE Raise("ValueError")
  ELSE Raise("ValueError")

gena_deserialize_bool(value) ==
  IF value.k = "bool" THEN Return(value)
  ELSE IF value.k = "str"
       THEN IF value.s \notin {"true", "false"} THEN Raise("ValueError")
            ELSE Return(PBool(value.s = "true"))
  ELSE Raise("ValueError")

gena_deserialize_str(value) ==
  IF value.k = "str" THEN Return(value) ELSE Raise("ValueError")

deserialize_none(value) ==
  IF value = PNone THEN Return(value) ELSE Raise("ValueError")

\* The first exception a left-to-right evaluation meets.
FirstFailure(rs) ==
  rs[CHOOSE i \in 1..Len(rs) : ~rs[i].ok /\ \A j \in 1..(i - 1) : rs[j].ok]

AllOk(rs) == \A i \in 1..Len(rs) : rs[i].ok

Vals(rs) == [i \in 1..Len(rs) |-> rs[i].val]

\* annotated_type(value) of an Enum class: the constructor.
enum_constructor(T, value) ==
  LET members == enum_members[T.name]
  IN IF value.k = "enum" /\ value.cls = T.name THEN Return(value)
     ELSE IF \E m \in DOMAIN members : members[m] = value
          THEN Return(PEnum(T.name, CHOOSE m \in DOMAIN members : members[m] = value))
          ELSE Raise("ValueError")

\* value not in valid_values: hashing an unhashable value is a TypeError.
deserialize_literal(T, value) ==
  IF value.k \in {"list", "set", "dict", "obj"} THEN Raise("TypeError")
  ELSE IF \A i \in 1..Len(T.args) : T.args[i] # value THEN Raise("Exception")
  ELSE Return(value)

RECURSIVE deserialize(_, _)
RECURSIVE deserialize_n_args(_, _, _)
RECURSIVE deserialize_args(_, _)
RECURSIVE deserialize_record_fields(_, _, _)

\* deserialize_n_args: the first alternative that returns; only ValueError
\* moves on to the next one.
deserialize_n_args(args, i, value) ==
  IF i > Len(args) THEN Raise("ValueError")
  ELSE LET r == deserialize(args[i], value)
       IN IF r.ok THEN r
          ELSE IF r.err = "ValueError" THEN deserialize_n_args(args, i + 1, value)
          ELSE r

\* deserialize_args of get_deserializer_from_type.
deserialize_args(T, value) ==
  IF Len(T.args) = 1 THEN deserialize(T.args[1], value)
  ELSE IF Len(T.args) = 2 /\ \E i \in 1..2 : T.args[i] = Ty("NoneType")
  THEN IF value = PNone THEN Return(value)
       ELSE deserialize(T.args[CHOOSE i \in 1..2 :
                                 /\ T.args[i] # Ty("NoneType")
                                 /\ \A j \in 1..(i - 1) : T.args[j] = Ty("NoneType")],
                        value)
  ELSE deserialize_n_args(T.args, 1, value)

\* The loop over field2deserializer of a record deserializer: one result
\* per declared field, in declaration order.  optional[i] says whether the
\* record deserializer lets field i be absent.
deserialize_record_fields(fs, optional, value) ==
  [i \in 1..Len(fs) |->
     IF PStr(fs[i].name) \in DOMAIN value.map
     THEN deserialize(fs[i].type, value.map[PStr(fs[i].name)])
     ELSE IF optional[i] THEN Return(fs[i].default)
     ELSE RaiseMissing(fs[i].name)]

\* CLS(**output): a field left out takes its default; without a default
\* the constructor raises TypeError.
construct(T, fs, value, rs) ==
  IF \E i \in 1..Len(fs) :
        PStr(fs[i].name) \notin DOMAIN value.map /\ ~fs[i].has_default
  THEN Raise("TypeError")
  ELSE Return(PObj(T.name,
                   [n \in {fs[i].name : i \in 1..Len(fs)} |->
                      rs[CHOOSE i \in 1..Len(fs) : fs[i].name = n].val]))

\* The deserializer get_deserializer_from_type derives for T, applied.
deserialize(T, value) ==
  CASE T.k = "str" -> gena_deserialize_str(value)
    [] T.k = "int" -> gena_deserialize_int(value)
    [] T.k = "bool" -> gena_deserialize_bool(value)
    [] T.k = "NoneType" -> deserialize_none(value)
    [] T.k = "dataclass" ->
         IF value.k # "dict" THEN Raise("ValueError")
         ELSE LET fs == FieldsOf(T)
                  rs == deserialize_record_fields(
                          fs, [i \in 1..Len(fs) |-> fs[i].has_default], value)
              IN IF ~AllOk(rs) THEN FirstFailure(rs) ELSE construct(T, fs, value, rs)
    [] T.k = "TypedDict" ->
         IF value.k # "dict" THEN Raise("ValueError")
         ELSE LET fs == FieldsOf(T)
                  rs == deserialize_record_fields(
                          fs, [i \in 1..Len(fs) |-> FALSE], value)
              IN IF ~AllOk(rs) THEN FirstFailure(rs)
                 ELSE Return(PDict([key \in {PStr(fs[i].name) : i \in 1..Len(fs)} |->
                                      rs[CHOOSE i \in 1..Len(fs) :
                                           PStr(fs[i].name) = key].val]))
    [] T.k = "Enum" -> enum_constructor(T, value)
    [] T.k = "Literal" -> deserialize_literal(T, value)
    [] IsHomogeneousTuple(T) ->
         IF value.k \notin {"list", "tuple"} THEN Raise("ValueError")
         ELSE LET rs == [i \in 1..Len(value.items) |->
                           deserialize(T.args[1], value.items[i])]
              IN IF AllOk(rs) THEN Return(PTuple(Vals(rs))) ELSE FirstFailure(rs)
    [] T.k = "tuple" /\ ~IsHomogeneousTuple(T) ->
         IF value.k # "list" THEN Raise("ValueError")
         ELSE IF Len(value.items) # Len(T.args) THEN Raise("ValueError")
         ELSE LET rs == [i \in 1..Len(T.args) |->
                           deserialize(T.args[i], value.items[i])]
              IN IF AllOk(rs) THEN Return(PTuple(Vals(rs))) ELSE FirstFailure(rs)
    [] T.k = "list" ->
         IF value.k # "list" THEN Raise("ValueError")
         ELSE LET rs == [i \in 1..Len(value.items) |->
                           deserialize_args(T, value.items[i])]
              IN IF AllOk(rs) THEN Return(PList(Vals(rs))) ELSE FirstFailure(rs)
    [] T.k = "set" ->
         IF value.k # "set" THEN Raise("ValueError")
         ELSE LET failed == {e \in value.elems : ~deserialize_args(T, e).ok}
              IN IF failed = {}
                 THEN Return(PSet({deserialize_args(T, e).val : e \in value.elems}))
                 ELSE deserialize_args(T, CHOOSE e \in failed : TRUE)
    [] T.k = "dict" ->
         IF value.k # "dict" THEN Raise("ValueError")
         ELSE LET keys == DOMAIN value.map
                  failed_keys == {key \in keys : ~deserialize(T.args[1], key).ok}
                  failed_items ==
                    {key \in keys : ~deserialize(T.args[2], value.map[key]).ok}
              IN IF failed_keys # {}
                 THEN deserialize(T.args[1], CHOOSE key \in failed_keys : TRUE)
                 ELSE IF failed_items # {}
                 THEN deserialize(T.args[2],
                                  value.map[CHOOSE key \in failed_items : TRUE])
                 ELSE Return(PDict(
                        [nk \in {deserialize(T.args[1], key).val : key \in keys} |->
                           deserialize(T.args[2],
                             value.map[CHOOSE key \in keys :
                                         deserialize(T.args[1], key).val = nk]).val]))
    [] T.k = "Union" -> deserialize_args(T, value)

\* The record deserializer of flask_peewee_restful: a field may be absent
\* when its annotation is Optional[...].
IsOptionalType(T) ==
  T.k = "Union" /\ \E i \in 1..Len(T.args) : T.args[i] = Ty("NoneType")

fpr_deserialize_dataclass(T, value) ==
  IF value.k # "dict" THEN Raise("ValueError")
  ELSE LET fs == FieldsOf(T)
           rs == deserialize_record_fields(
                   fs, [i \in 1..Len(fs) |-> IsOptionalType(fs[i].type)], value)
       IN IF ~AllOk(rs) THEN FirstFailure(rs) ELSE construct(T, fs, value, rs)

\* --------------------------------------------------- derived serializers
\* round(value.timestamp() * 1000): a naive datetime is read on the clock
\* of the host, utc_offset milliseconds ahead of UTC.
datetime_serializer(value, utc_offset) ==
  IF value = PNone THEN Return(PNone)
  ELSE LET epoch == value.ms - utc_offset
       IN Return(PInt(IF value.us > 500 \/ (value.us = 500 /\ epoch % 2 = 1)
                      THEN epoch + 1 ELSE epoch))

\* isinstance(value, cls); a subscripted generic or a TypedDict as cls is a
\* TypeError.
isinstance(value, cls) ==
  CASE cls.k \in {"list", "set", "dict", "tuple", "Literal", "TypedDict"} ->
         Raise("TypeError")
    [] cls.k = "int" -> Return(IsInt(value))
    [] cls.k = "bool" -> Return(value.k = "bool")
    [] cls.k = "str" -> Return(value.k = "str")
    [] cls.k = "NoneType" -> Return(value = PNone)
    [] cls.k = "dataclass" -> Return(value.k = "obj" /\ value.cls = cls.name)
    [] cls.k = "Enum" -> Return(value.k = "enum" /\ value.cls = cls.name)
    [] OTHER -> Return(FALSE)

\* One iteration order of a set.
SeqOf(S) == CHOOSE p \in Perms(S) : TRUE

RECURSIVE serializer_is_none(_)
\* get_serializer_from_type returns None: the value is passed as it is.
serializer_is_none(T) ==
  CASE T.k \in Primitives -> TRUE
    [] T.k = "Literal" -> TRUE
    [] T.k \in {"list", "set", "tuple"} -> serializer_is_none(T.args[1])
    [] T.k = "dict" -> serializer_is_none(T.args[2])
    [] T.k = "Union" -> \A i \in 1..Len(T.args) : serializer_is_none(T.args[i])
    [] OTHER -> FALSE

RECURSIVE serialize(_, _)
RECURSIVE serialize_union(_, _, _)

\* serialize_union: the first class the value is an instance of.
serialize_union(T, i, value) ==
  IF i > Len(T.args) THEN Raise("ValueError")
  ELSE LET c == isinstance(value, T.args[i])
       IN IF ~c.ok THEN c
          ELSE IF c.val
          THEN IF serializer_is_none(T.args[i]) THEN Raise("TypeError")
               ELSE serialize(T.args[i], value)
          ELSE serialize_union(T, i + 1, value)

\* The serializer get_serializer_from_type derives for T, applied.
serialize(T, value) ==
  IF serializer_is_none(T) THEN Return(value)
  ELSE CASE T.k = "dataclass" ->
              IF value = PNone THEN Return(PNone)
              ELSE IF value.k # "obj" THEN Raise("AttributeError")
              ELSE LET fs == FieldsOf(T)
                       rs == [i \in 1..Len(fs) |->
                                IF fs[i].name \in DOMAIN value.attrs
                                THEN serialize(fs[i].type, value.attrs[fs[i].name])
                                ELSE Raise("AttributeError")]
                   IN IF ~AllOk(rs) THEN FirstFailure(rs)
                      ELSE Return(PDict(
                             [key \in {PStr(fs[i].name) : i \in 1..Len(fs)} |->
                                rs[CHOOSE i \in 1..Len(fs) : PStr(fs[i].name) = key].val]))
         [] T.k = "TypedDict" ->
              IF value = PNone THEN Return(PNone)
              ELSE IF FieldsOf(T) = <<>> THEN Return(PDict(<<>>))
              ELSE Raise("AttributeError")
         [] T.k = "Enum" ->
              IF value.k = "enum" THEN Return(enum_members[value.cls][value.member])
              ELSE Raise("AttributeError")
         [] T.k \in {"list", "set", "tuple"} ->
              IF value = PNone THEN Return(PNone)
              ELSE LET items == IF value.k = "set" THEN SeqOf(value.elems)
                                ELSE value.items
                       rs == [i \in 1..Len(items) |-> serialize(T.args[1], items[i])]
                   IN IF AllOk(rs) THEN Return(PList(Vals(rs))) ELSE FirstFailure(rs)
         [] T.k = "dict" ->
              IF value = PNone THEN Return(PNone)
              ELSE LET failed == {key \in DOMAIN value.map :
                                    ~serialize(T.args[2], value.map[key]).ok}
                   IN IF failed # {}
                      THEN serialize(T.args[2], value.map[CHOOSE key \in failed : TRUE])
                      ELSE Return(PDict([key \in DOMAIN value.map |->
                                           serialize(T.args[2], value.map[key]).val]))
         [] T.k = "Union" ->
              IF value = PNone THEN Return(PNone) ELSE serialize_union(T, 1, value)

\* ------------------------------------------------ which types are derived
RECURSIVE deserializer_derived(_, _)
\* get_deserializer_from_type(T, known) returns a deserializer and does
\* not raise.
deserializer_derived(T, known) ==
  IF T \in known THEN TRUE
  ELSE CASE T.k \in Primitives -> TRUE
         [] T.k = "dataclass" ->
              \A i \in 1..Len(FieldsOf(T)) :
                 deserializer_derived(FieldsOf(T)[i].type, known \cup {T})
         [] T.k = "TypedDict" ->
              /\ typeddicts[T.name].total
              /\ \A i \in 1..Len(FieldsOf(T)) :
                    deserializer_derived(FieldsOf(T)[i].type, known \cup {T})
         [] T.k = "Enum" -> TRUE
         [] T.k = "Literal" -> T.args # <<>>
         [] IsHomogeneousTuple(T) ->
              Len(T.args) = 2 /\ deserializer_derived(T.args[1], known)
         [] T.k \in {"tuple", "list", "set", "dict", "Union"} /\ ~IsHomogeneousTuple(T) ->
              /\ T.args # <<>>
              /\ \A i \in 1..Len(T.args) : deserializer_derived(T.args[i], known)
         [] OTHER -> FALSE

RECURSIVE serializer_derived(_, _)
\* get_serializer_from_type(T, known) returns and does not raise
\* NoDerivedSerializer.
serializer_derived(T, known) ==
  IF T \in known THEN TRUE
  ELSE CASE T.k \in Primitives -> TRUE
         [] T.k = "dataclass" ->
              \A i \in 1..Len(FieldsOf(T)) :
                 serializer_derived(FieldsOf(T)[i].type, known \cup {T})
         [] T.k = "TypedDict" ->
              /\ typeddicts[T.name].total
              /\ \A i \in 1..Len(FieldsOf(T)) :
                    serializer_derived(FieldsOf(T)[i].type, known \cup {T})
         [] T.k = "Enum" -> TRUE
         [] T.k = "Literal" -> T.args # <<>>
         [] T.k \in {"list", "set"} ->
              T.args # <<>> /\ serializer_derived(T.args[1], known)
         [] T.k = "tuple" ->
              /\ Len(T.args) = 2
              /\ T.args[2] = Ellipsis
              /\ serializer_derived(T.args[1], known)
         [] T.k = "dict" ->
              T.args # <<>> /\ serializer_derived(T.args[2], known)
         [] T.k = "Union" ->
              \A i \in 1..Len(T.args) : serializer_derived(T.args[i], known)
         [] OTHER -> FALSE

\* ---------------------------------------------------------------- inputs
\* How deep the values of a record type nest.
MaxDepth == 3

\* The annotated types codecs are asked for.
AnnotatedTypes ==
  {Ty("int"), Ty("str"), Ty("bool"), Ty("object"), EnumClass("Color"),
   Generic("Literal", <<PStr("a"), PStr("b")>>), Generic("list", <<>>),
   Generic("list", <<Ty("int")>>), Generic("list", <<EnumClass("Color")>>),
   Generic("list", <<DataClass("A")>>),
   Generic("set", <<Ty("int")>>), Generic("set", <<EnumClass("Color")>>),
   Generic("tuple", <<Ty("int"), Ellipsis>>),
   Generic("tuple", <<EnumClass("Color"), Ellipsis>>),
   Generic("tuple", <<Ty("int"), Ty("str")>>),
   Generic("dict", <<Ty("str"), Ty("int")>>),
   Generic("dict", <<Ty("str"), EnumClass("Color")>>),
   Generic("dict", <<EnumClass("Color"), Ty("int")>>),
   OptionalOf(Ty("int")), OptionalOf(EnumClass("Color")), OptionalOf(DataClass("B")),
   Generic("Union", <<Ty("int"), Ty("str")>>),
   Generic("Union", <<Ty("str"), Ty("int")>>),
   Generic("Union", <<Ty("int"), EnumClass("Color")>>),
   Generic("Union", <<EnumClass("Color"), DataClass("B")>>),
   Generic("Union", <<Generic("Literal", <<PStr("a"), PStr("b")>>), Ty("int")>>),
   DataClass("A"), DataClass("B"), DataClass("Q"), DataClass("M"),
   DataClass("W"), DataClass("X"), DataClass("R"),
   TypedDict("TD"), TypedDict("TE"), TypedDict("TN"), TypedDict("TX")}

RECURSIVE ValuesOf(_, _)
\* Some values of type T, records nested at most d deep.
ValuesOf(T, d) ==
  CASE T.k = "str" -> {PStr("a"), PStr("5")}
    [] T.k = "int" -> {PInt(1), PInt(5)}
    [] T.k = "bool" -> {PBool(TRUE)}
    [] T.k = "NoneType" -> {PNone}
    [] T.k = "Enum" -> {PEnum(T.name, m) : m \in DOMAIN enum_members[T.name]}
    [] T.k = "Literal" -> {T.args[i] : i \in 1..Len(T.args)}
    [] T.k = "dataclass" ->
         IF d = 0 THEN {}
         ELSE LET fs == FieldsOf(T)
                  names == {fs[i].name : i \in 1..Len(fs)}
                  all == UNION {ValuesOf(fs[i].type, d - 1) : i \in 1..Len(fs)}
              IN {PObj(T.name, f) :
                    f \in {g \in [names -> all] :
                             \A i \in 1..Len(fs) :
                                g[fs[i].name] \in ValuesOf(fs[i].type, d - 1)}}
    [] T.k = "TypedDict" ->
         IF d = 0 THEN {}
         ELSE LET fs == FieldsOf(T)
                  keys == {PStr(fs[i].name) : i \in 1..Len(fs)}
                  all == UNION {ValuesOf(fs[i].type, d - 1) : i \in 1..Len(fs)}
              IN {PDict(f) :
                    f \in {g \in [keys -> all] :
                             \A i \in 1..Len(fs) :
                                g[PStr(fs[i].name)] \in ValuesOf(fs[i].type, d - 1)}}
    [] IsHomogeneousTuple(T) ->
         {PTuple(<<>>)} \cup {PTuple(<<x>>) : x \in ValuesOf(T.args[1], d)}
    [] T.k = "tuple" /\ ~IsHomogeneousTuple(T) ->
         {PTuple(<<x, y>>) : x \in ValuesOf(T.args[1], d), y \in ValuesOf(T.args[2], d)}
    [] T.k = "list" ->
         {PList(<<>>)} \cup {PList(<<x>>) : x \in ValuesOf(T.args[1], d)}
    [] T.k = "set" ->
         {PSet({})} \cup {PSet({x}) : x \in ValuesOf(T.args[1], d)}
    [] T.k = "dict" ->
         {PDict(<<>>)}
         \cup {PDict([key \in {x} |-> y]) :
                 x \in ValuesOf(T.args[1], d), y \in ValuesOf(T.args[2], d)}
    [] T.k = "Union" -> UNION {ValuesOf(T.args[i], d) : i \in 1..Len(T.args)}

\* A dict with the string keys and the values of a record.
Mapping(r) == PDict([key \in {PStr(n) : n \in DOMAIN r} |-> r[key.s]])

\* What a client may send to a deserializer.
RawInputs ==
  {PNone, PInt(1), PBool(TRUE), PStr("a"), PStr("z"), PStr("5"), PStr("true"),
   PStr("r"), PList(<<>>), PList(<<PInt(1)>>), PList(<<PStr("z")>>),
   PList(<<PInt(1), PStr("a")>>), PList(<<PInt(1), PInt(5)>>),
   PTuple(<<PInt(1)>>), PSet({PInt(1)}), PSet({PStr("z")}),
   PDict(<<>>), Mapping([x |-> PInt(1)]), Mapping([x |-> PStr("z")]),
   Mapping([a |-> PInt(1)]), Mapping([a |-> PStr("z")]),
   Mapping([n |-> PInt(1), d |-> PInt(5)]), Mapping([n |-> PInt(1)]),
   Mapping([d |-> PInt(5)]), Mapping([n |-> PNone, d |-> PStr("z")]),
   Mapping([b |-> Mapping([x |-> PInt(1)])]),
   Mapping([b |-> Mapping([x |-> PInt(1)]), me |-> PNone]),
   Mapping([b |-> Mapping([x |-> PInt(1)]), me |-> Mapping([me |-> PNone])]),
   Mapping([me |-> PNone]),
   Mapping([b1 |-> Mapping([x |-> PInt(1)])]),
   Mapping([b1 |-> Mapping([x |-> PInt(1)]), b2 |-> Mapping([x |-> PInt(5)])])}

DateTimes == {PDatetime(ms, us) : ms \in {0, 7}, us \in {0, 400, 600}}

\* The hosts: on UTC, or one hour ahead of it.
UtcOffsets == {0, 3600000}

\* Record classes whose fields both record derivers treat alike.
FprRecordTypes == {DataClass("B"), DataClass("Q")}

\* The types whose deserializer is derived from an empty registry, and
\* those whose serializer is derived as well.
DerivedDeserializers == {T \in AnnotatedTypes : deserializer_derived(T, {})}

DerivedBoth == {T \in DerivedDeserializers : serializer_derived(T, {})}

\* --------------------------------------------------------------- actions
InitCodec ==
  /\ table = <<>>
  /\ request = <<>>
  /\ response = NoResponse
  /\ api = NoApi
  /\ codec = NoCodec
  /\ clients = NoClients

\* serialize a value of T with the derived serializer, then deserialize
\* what came out with the derived deserializer.
RoundTrip ==
  /\ codec = NoCodec
  /\ \E T \in DerivedBoth :
        \E v \in ValuesOf(T, MaxDepth) :
           LET s == serialize(T, v)
           IN codec' = [phase |-> "roundtrip", by |-> "gena", type |-> T,
                        value |-> v, serialized |-> s,
                        result |-> IF s.ok THEN deserialize(T, s.val) ELSE s]
  /\ UNCHANGED <<table, request, response, api, clients>>

\* The codecs of a DateTimeField.
RoundTripDateTime ==
  /\ codec = NoCodec
  /\ \E v \in DateTimes, utc_offset \in UtcOffsets :
        LET s == datetime_serializer(v, utc_offset)
        IN codec' = [phase |-> "roundtrip", by |-> "gena", type |-> Ty("datetime"),
                     value |-> v, serialized |-> s,
                     result |-> gena_deserialize_datetime(s.val)]
  /\ UNCHANGED <<table, request, response, api, clients>>

\* A derived deserializer of gena applied to what a client sent.
Deserialize ==
  /\ codec = NoCodec
  /\ \E T \in DerivedDeserializers, raw \in RawInputs :
        codec' = [phase |-> "deserialized", by |-> "gena", type |-> T,
                  value |-> raw, serialized |-> Return(raw),
                  result |-> deserialize(T, raw)]
  /\ UNCHANGED <<table, request, response, api, clients>>

DeserializeDateTime ==
  /\ codec = NoCodec
  /\ \E raw \in RawInputs \cup {PStr("1970-01-01T00:00:00.007")} :
        codec' = [phase |-> "deserialized", by |-> "gena", type |-> Ty("datetime"),
                  value |-> raw, serialized |-> Return(raw),
                  result |-> gena_deserialize_datetime(raw)]
  /\ UNCHANGED <<table, request, response, api, clients>>

\* A record deserializer of flask_peewee_restful applied likewise.
DeserializeFpr ==
  /\ codec = NoCodec
  /\ \E T \in FprRecordTypes, raw \in RawInputs :
        codec' = [phase |-> "deserialized", by |-> "flask_peewee_restful",
                  type |-> T, value |-> raw, serialized |-> Return(raw),
                  result |-> fpr_deserialize_dataclass(T, raw)]
  /\ UNCHANGED <<table, request, response, api, clients>>

Forget ==
  /\ codec # NoCodec
  /\ codec' = NoCodec
  /\ UNCHANGED <<table, request, response, api, clients>>

NextCodec ==
  \/ RoundTrip
  \/ RoundTripDateTime
  \/ Deserialize
  \/ DeserializeDateTime
  \/ DeserializeFpr
  \/ Forget

SpecCodec == InitCodec /\ [][NextCodec]_vars

\* ------------------------------------------------ properties of the codecs
\* Two datetimes less than a millisecond apart.
SameToMs(a, b) ==
  \/ a = b
  \/ a.ms = b.ms
  \/ a.ms + 1 = b.ms /\ a.us > b.us
  \/ b.ms + 1 = a.ms /\ b.us > a.us

\* The declared fields of the record type a mapping lacks.
Lacking(T, value) ==
  {i \in 1..Len(FieldsOf(T)) : PStr(FieldsOf(T)[i].name) \notin DOMAIN value.map}

\* C12: what the derived serializer makes of a value of T, the derived
\* deserializer turns back into that value (a datetime to the millisecond).
C12_RoundTrip ==
  codec.phase = "roundtrip"
  => /\ codec.serialized.ok
     /\ codec.result.ok
     /\ IF codec.type = Ty("datetime")
        THEN SameToMs(codec.result.val, codec.value)
        ELSE codec.result.val = codec.value

\* C18: a derived deserializer of gena that refuses its input raises
\* ValueError.
C18_RejectsWithValueError ==
  (codec.phase = "deserialized" /\ codec.by = "gena" /\ ~codec.result.ok)
  => codec.result.err = "ValueError"

\* C19: a record deserializer given a mapping that lacks one declared field
\* and holds an acceptable value for every other accepts it exactly when the
\* field has a default, and otherwise raises ValueError naming the field.
C19_MissingFieldNeedsDefault ==
  (/\ codec.phase = "deserialized"
   /\ codec.type.k \in {"dataclass", "TypedDict"}
   /\ codec.value.k = "dict"
   /\ Cardinality(Lacking(codec.type, codec.value)) = 1
   /\ \A i \in 1..Len(FieldsOf(codec.type)) :
         i \notin Lacking(codec.type, codec.value)
         => deserialize(FieldsOf(codec.type)[i].type,
                        codec.value.map[PStr(FieldsOf(codec.type)[i].name)]).ok)
  => LET f == FieldsOf(codec.type)[CHOOSE i \in Lacking(codec.type, codec.value) : TRUE]
     IN /\ codec.result.ok <=> (codec.type.k = "dataclass" /\ f.has_default)
        /\ ~codec.result.ok
           => (codec.result.err = "ValueError" /\ codec.result.field = f.name)

\* ------------------------------------------- a derivation, call by call
\* get_deserializer_from_type / get_serializer_from_type as the interpreter
\* runs them: a stack of calls, the registries (known_type_deserializers,
\* known_type_serializer) as sets of the types that have an entry, and for
\* every record type how often the loop over its fields was entered.
RecordNames == DOMAIN dataclass_fields \cup DOMAIN typeddicts

IsRecord(T) == T.k \in {"dataclass", "TypedDict"}

\* The annotated types whose codec the call of T asks for, in order.
Children(side, T) ==
  IF IsRecord(T) THEN [i \in 1..Len(FieldsOf(T)) |-> FieldsOf(T)[i].type]
  ELSE IF side = "deserializer"
       THEN IF IsHomogeneousTuple(T) THEN <<T.args[1]>> ELSE T.args
       ELSE CASE T.k = "dict" -> <<T.args[2]>>
              [] T.k = "Union" -> T.args
              [] OTHER -> <<T.args[1]>>

\* What a call does before its first nested call: "return" at once,
\* "raise" NoDerived..., fail with the "error" of a plain Exception, or
\* "descend" into Children.
Entry(side, T, known) ==
  IF T \in known THEN "return"
  ELSE CASE T.k \in Primitives -> "return"
         [] T.k = "dataclass" -> "descend"
         [] T.k = "TypedDict" ->
              IF typeddicts[T.name].total THEN "descend" ELSE "raise"
         [] T.k = "Enum" -> "return"
         [] T.k \notin {"Literal", "tuple", "list", "set", "dict", "Union"} -> "raise"
         [] T.args = <<>> -> "raise"
         [] T.k = "Literal" -> "return"
         [] side = "serializer" /\ T.k = "tuple" /\ ~(Len(T.args) = 2 /\ T.args[2] = Ellipsis)
              -> "raise"
         [] side = "deserializer" /\ IsHomogeneousTuple(T) /\ Len(T.args) # 2 -> "error"
         [] OTHER -> "descend"

\* The registry the call of record type T works with: the one it was
\* given, or, in get_dataclass_deserializer given an empty one, a new dict
\* (known_type_deserializers or {}).
RegistryOf(side, T, regs, r) ==
  IF side = "deserializer" /\ T.k = "dataclass" /\ regs[r] = {}
  THEN Len(regs) + 1
  ELSE r

\* known[T] = stub
Register(regs, r, T) ==
  IF r > Len(regs) THEN Append(regs, {T}) ELSE [regs EXCEPT ![r] = @ \cup {T}]

\* Whether the call of T removes its stub when a nested call raises
\* exception exc: the except clauses name NoDerivedDeserializer and
\* NoDerivedSerializer only.
DeletesStub(side, T, exc) ==
  /\ exc = "NoDerived"
  /\ \/ T.k = "dataclass"
     \/ T.k = "TypedDict" /\ side = "deserializer"

PendingCall(T, r) == [k |-> "call", type |-> T, reg |-> r]

PendingNext == [k |-> "next"]

PendingRaise == [k |-> "raise", exc |-> "NoDerived"]

PendingError == [k |-> "raise", exc |-> "Exception"]

\* The types derivations start from, and the registries callers pass.
DeriveRoots ==
  {Ty("int"), Ty("object"), EnumClass("Color"),
   Generic("Literal", <<PStr("a"), PStr("b")>>),
   Generic("list", <<Ty("datetime")>>),
   Generic("list", <<DataClass("A")>>),
   Generic("dict", <<Ty("str"), DataClass("B")>>),
   Generic("tuple", <<DataClass("B"), Ellipsis>>),
   Generic("tuple", <<DataClass("B"), DataClass("B")>>),
   Generic("Union", <<DataClass("B"), Generic("list", <<DataClass("B")>>)>>),
   Generic("Union", <<DataClass("W"), DataClass("A")>>),
   DataClass("A"), DataClass("B"), DataClass("Q"), DataClass("M"),
   DataClass("W"), DataClass("X"), DataClass("R"), DataClass("V"),
   DataClass("C"), DataClass("D"),
   TypedDict("TD"), TypedDict("TE"), TypedDict("TN"), TypedDict("TR"),
   TypedDict("TX")}

InitialRegistries == {{}, {Ty("datetime")}}

Deriving == codec.phase = "deriving"

\* The closures the derivations have made for record types: stubs[id] is
\* "open" while the loop over its fields runs, "complete" when the loop has
\* filled its field table, "abandoned" when the loop was left by an
\* exception; uses holds the closures its field table refers to. ids[r]
\* tells which closure registry r holds for a record type.
NewStub(T) == [type |-> T, status |-> "open", uses |-> {}]

StubOf(ids, r, T) ==
  IF \E q \in ids[r] : q[1] = T THEN (CHOOSE q \in ids[r] : q[1] = T)[2] ELSE 0

\* The field table of the innermost record call gets a codec that refers
\* to closure u (u = 0: to none).
AddUse(stubs, stack, u) ==
  LET rec == {i \in 1..Len(stack) : stack[i].stub # 0}
  IN IF u = 0 \/ rec = {} THEN stubs
     ELSE LET top == CHOOSE i \in rec : \A j \in rec : j <= i
          IN [stubs EXCEPT ![stack[top].stub].uses = @ \cup {u}]

\* get_deserializer_from_type(root, known) or
\* get_serializer_from_type(root, known) is called.
StartDerive ==
  /\ codec = NoCodec
  /\ \E side \in {"deserializer", "serializer"}, root \in DeriveRoots,
        known \in InitialRegistries :
        codec' = [phase |-> "deriving", side |-> side, root |-> root,
                  known |-> known, stack |-> <<>>, regs |-> <<known>>,
                  descents |-> [c \in RecordNames |-> 0],
                  pending |-> PendingCall(root, 1),
                  stubs |-> <<>>, ids |-> <<{}>>, n |-> 1]
  /\ UNCHANGED <<table, request, response, api, clients>>

\* A call begins: registry hit, leaf, refusal, or the stub of a record is
\* registered and the loop over the children begins.
Enter ==
  /\ Deriving
  /\ codec.pending.k = "call"
  /\ LET T == codec.pending.type
         r == codec.pending.reg
         e == Entry(codec.side, T, codec.regs[r])
         r2 == RegistryOf(codec.side, T, codec.regs, r)
         id == Len(codec.stubs) + 1
     IN codec' =
          IF e = "return"
          THEN [codec EXCEPT !.pending = PendingNext,
                             !.stubs = AddUse(@, codec.stack, StubOf(codec.ids, r, T))]
          ELSE IF e = "raise" THEN [codec EXCEPT !.pending = PendingRaise]
          ELSE IF e = "error" THEN [codec EXCEPT !.pending = PendingError]
          ELSE IF IsRecord(T)
          THEN [codec EXCEPT !.regs = Register(codec.regs, r2, T),
                             !.ids = IF r2 > Len(@) THEN Append(@, {<<T, id>>})
                                     ELSE [@ EXCEPT ![r2] = @ \cup {<<T, id>>}],
                             !.stubs = Append(@, NewStub(T)),
                             !.descents[T.name] = @ + 1,
                             !.stack = Append(@, [type |-> T, reg |-> r2, i |-> 0,
                                                  stub |-> id]),
                             !.pending = PendingNext]
          ELSE [codec EXCEPT !.stack = Append(@, [type |-> T, reg |-> r, i |-> 0,
                                                  stub |-> 0]),
                             !.pending = PendingNext]
  /\ UNCHANGED <<table, request, response, api, clients>>

\* The innermost call asks for the codec of its next child.
Proceed ==
  /\ Deriving
  /\ codec.pending.k = "next"
  /\ codec.stack # <<>>
  /\ LET n == Len(codec.stack)
         f == codec.stack[n]
         cs == Children(codec.side, f.type)
     IN /\ f.i < Len(cs)
        /\ codec' = [codec EXCEPT !.stack[n].i = f.i + 1,
                                  !.pending = PendingCall(cs[f.i + 1], f.reg)]
  /\ UNCHANGED <<table, request, response, api, clients>>

\* The innermost call has the codecs of all its children and returns.
ReturnCodec ==
  /\ Deriving
  /\ codec.pending.k = "next"
  /\ codec.stack # <<>>
  /\ LET n == Len(codec.stack)
         f == codec.stack[n]
         rest == SubSeq(codec.stack, 1, n - 1)
     IN /\ f.i = Len(Children(codec.side, f.type))
        /\ codec' = [codec EXCEPT
                       !.stack = rest,
                       !.stubs = IF f.stub = 0 THEN @
                                 ELSE AddUse([@ EXCEPT ![f.stub].status = "complete"],
                                             rest, f.stub)]
  /\ UNCHANGED <<table, request, response, api, clients>>

\* The exception passes through the innermost call, which removes its stub
\* if it catches the exception.
Unwind ==
  /\ Deriving
  /\ codec.pending.k = "raise"
  /\ codec.stack # <<>>
  /\ LET n == Len(codec.stack)
         f == codec.stack[n]
         del == DeletesStub(codec.side, f.type, codec.pending.exc)
     IN codec' = [codec EXCEPT
                    !.stack = SubSeq(@, 1, n - 1),
                    !.stubs = IF f.stub = 0 THEN @
                              ELSE [@ EXCEPT ![f.stub].status = "abandoned"],
                    !.regs[f.reg] = IF del THEN @ \ {f.type} ELSE @,
                    !.ids[f.reg] = IF del THEN @ \ {<<f.type, f.stub>>} ELSE @]
  /\ UNCHANGED <<table, request, response, api, clients>>

\* The outermost call returns the codec.
FinishDerive ==
  /\ Deriving
  /\ codec.pending.k = "next"
  /\ codec.stack = <<>>
  /\ codec' = [codec EXCEPT !.phase = "done"]
  /\ UNCHANGED <<table, request, response, api, clients>>

\* The outermost call raises.
FailDerive ==
  /\ Deriving
  /\ codec.pending.k = "raise"
  /\ codec.stack = <<>>
  /\ codec' = [codec EXCEPT !.phase = "raised"]
  /\ UNCHANGED <<table, request, response, api, clients>>

NextDerive ==
  \/ StartDerive
  \/ Enter
  \/ Proceed
  \/ ReturnCodec
  \/ Unwind
  \/ FinishDerive
  \/ FailDerive

SpecDerive == InitCodec /\ [][NextDerive]_vars

FairSpecDerive == SpecDerive /\ WF_vars(NextDerive)

\* How many derivations share one registry.
MaxDerivations == 2

\* The caller asks for another codec with the registry the derivations
\* before have left.
DeriveAgain ==
  /\ codec.phase \in {"done", "raised"}
  /\ codec.n < MaxDerivations
  /\ \E root \in DeriveRoots :
        codec' = [codec EXCEPT !.phase = "deriving", !.root = root,
                               !.known = codec.regs[1], !.stack = <<>>,
                               !.regs = <<codec.regs[1]>>,
                               !.ids = <<codec.ids[1]>>,
                               !.descents = [c \in RecordNames |-> 0],
                               !.pending = PendingCall(root, 1),
                               !.n = @ + 1]
  /\ UNCHANGED <<table, request, response, api, clients>>

NextDeriveShared ==
  \/ NextDerive
  \/ DeriveAgain

SpecDeriveShared == InitCodec /\ [][NextDeriveShared]_vars

InDerivation == codec.phase \in {"deriving", "done", "raised"}

\* Every derivation that starts comes to an end.
DerivationTerminates ==
  (codec.phase = "deriving") ~> (codec.phase \in {"done", "raised"})

\* What the derivation tells of the result agrees with the closed form.
DerivationAgrees ==
  codec.phase \in {"done", "raised"}
  => ((codec.phase = "done")
      <=> IF codec.side = "deserializer"
          THEN deserializer_derived(codec.root, codec.known)
          ELSE serializer_derived(codec.root, codec.known))

\* C20: in a derivation of gena (of a deserializer or of a serializer) the
\* loop over the fields of a record type is entered at most once for each
\* record type.
C20_DescendedAtMostOnce ==
  InDerivation => \A c \in RecordNames : codec.descents[c] <= 1

\* ------------------------- the derivation of flask_peewee_restful, call by call
\* flask_peewee_restful.deserializer.get_deserializer_from_type: it registers
\* nothing while it descends, and answers None where gena raises.
\* How many nested calls the interpreter allows before RecursionError.
RecursionLimit == 8

FprPrimitives == {"str", "int", "float", "NoneType"}

\* What a call does before its first nested call: "return" a deserializer,
\* return "none", or "descend".
FprEntry(T, known) ==
  IF T \in known THEN "return"
  ELSE CASE T.k \in FprPrimitives -> "return"
         [] IsRecord(T) -> "descend"
         [] T.k \notin {"Literal", "tuple", "list", "set", "dict", "Union"} -> "none"
         [] T.args = <<>> -> "none"
         [] T.k = "Literal" -> "return"
         [] OTHER -> "descend"

FprChildren(T) ==
  IF IsRecord(T) THEN [i \in 1..Len(FieldsOf(T)) |-> FieldsOf(T)[i].type]
  ELSE T.args

\* Whether the call of T, all its children visited, returns a deserializer
\* (none: one of the children had none).
FprFinal(T, none) ==
  IF none THEN FALSE
  ELSE CASE T.k = "dataclass" -> TRUE
         [] T.k = "TypedDict" -> typeddicts[T.name].total
         [] T.k \in {"list", "set", "dict", "Union"} -> TRUE
         [] OTHER -> FALSE

PendingFprCall(T) == [k |-> "call", type |-> T]

PendingResult(some) == [k |-> "result", some |-> some]

FprDeriving == codec.phase = "deriving" /\ codec.by = "flask_peewee_restful"

\* get_deserializer_from_type(root, known) is called.
FprStartDerive ==
  /\ codec = NoCodec
  /\ \E root \in DeriveRoots, known \in InitialRegistries :
        codec' = [phase |-> "deriving", by |-> "flask_peewee_restful",
                  root |-> root, known |-> known, stack |-> <<>>,
                  pending |-> PendingFprCall(root)]
  /\ UNCHANGED <<table, request, response, api, clients>>

\* A call begins and either answers at once or starts on its children.
FprEnter ==
  /\ FprDeriving
  /\ codec.pending.k = "call"
  /\ LET T == codec.pending.type
         e == FprEntry(T, codec.known)
     IN /\ e = "descend" => Len(codec.stack) < RecursionLimit
        /\ codec' =
             IF e = "descend"
             THEN [codec EXCEPT !.stack = Append(@, [type |-> T, i |-> 0, none |-> FALSE]),
                                !.pending = [k |-> "next"]]
             ELSE [codec EXCEPT !.pending = PendingResult(e = "return")]
  /\ UNCHANGED <<table, request, response, api, clients>>

\* A call would descend deeper than the interpreter allows.
FprOverflow ==
  /\ FprDeriving
  /\ codec.pending.k = "call"
  /\ FprEntry(codec.pending.type, codec.known) = "descend"
  /\ Len(codec.stack) >= RecursionLimit
  /\ codec' = [codec EXCEPT !.phase = "RecursionError"]
  /\ UNCHANGED <<table, request, response, api, clients>>

\* The innermost call receives what its child returned: a record gives up
\* at the first None, the others go on with their arguments.
FprTake ==
  /\ FprDeriving
  /\ codec.pending.k = "result"
  /\ codec.stack # <<>>
  /\ LET n == Len(codec.stack)
         f == codec.stack[n]
     IN codec' =
          IF IsRecord(f.type) /\ ~codec.pending.some
          THEN [codec EXCEPT !.stack = SubSeq(@, 1, n - 1),
                             !.pending = PendingResult(FALSE)]
          ELSE [codec EXCEPT !.stack[n].none = f.none \/ ~codec.pending.some,
                             !.pending = [k |-> "next"]]
  /\ UNCHANGED <<table, request, response, api, clients>>

FprNextChild ==
  /\ FprDeriving
  /\ codec.pending.k = "next"
  /\ LET n == Len(codec.stack)
         f == codec.stack[n]
     IN /\ f.i < Len(FprChildren(f.type))
        /\ codec' = [codec EXCEPT !.stack[n].i = f.i + 1,
                                  !.pending = PendingFprCall(FprChildren(f.type)[f.i + 1])]
  /\ UNCHANGED <<table, request, response, api, clients>>

FprReturn ==
  /\ FprDeriving
  /\ codec.pending.k = "next"
  /\ LET n == Len(codec.stack)
         f == codec.stack[n]
     IN /\ f.i = Len(FprChildren(f.type))
        /\ codec' = [codec EXCEPT !.stack = SubSeq(@, 1, n - 1),
                                  !.pending = PendingResult(FprFinal(f.type, f.none))]
  /\ UNCHANGED <<table, request, response, api, clients>>

\* The outermost call returns a deserializer or None.
FprFinish ==
  /\ FprDeriving
  /\ codec.pending.k = "result"
  /\ codec.stack = <<>>
  /\ codec' = [codec EXCEPT !.phase = IF codec.pending.some THEN "done" ELSE "no_deserializer"]
  /\ UNCHANGED <<table, request, response, api, clients>>

NextDeriveFpr ==
  \/ FprStartDerive
  \/ FprEnter
  \/ FprOverflow
  \/ FprTake
  \/ FprNextChild
  \/ FprReturn
  \/ FprFinish

SpecDeriveFpr == InitCodec /\ [][NextDeriveFpr]_vars

\* C21: a derivation of flask_peewee_restful never nests its calls deeper
\* than the interpreter allows, so it ends by returning and not with
\* RecursionError, also for records that refer to themselves.
C21_DerivationReturns ==
  codec.phase # "RecursionError"

\* -------------------------------------------------- properties of unions
\* The alternatives of a union whose deserializer accepts the value.
Accepting(T, value) ==
  {i \in 1..Len(T.args) : deserialize(T.args[i], value).ok}

\* A union deserialized as deserialize_n_args does it: two or more
\* alternatives that are not None.
DeserializedUnion ==
  /\ codec.phase = "deserialized"
  /\ codec.by = "gena"
  /\ codec.type.k = "Union"
  /\ Cardinality({i \in 1..Len(codec.type.args) : codec.type.args[i] # Ty("NoneType")}) >= 2

\* C22: a union's deserializer returns what the first alternative that
\* accepts the value returns, and refuses, with ValueError, only a value that
\* every alternative refuses.
C22_FirstAcceptingAlternative ==
  DeserializedUnion
  => LET acc == Accepting(codec.type, codec.value)
     IN IF acc = {}
        THEN ~codec.result.ok /\ codec.result.err = "ValueError"
        ELSE codec.result =
               deserialize(codec.type.args[CHOOSE i \in acc : \A j \in acc : i <= j],
                           codec.value)

\* The alternatives of a union whose class the value belongs to.
Matching(T, value) ==
  {i \in 1..Len(T.args) :
     isinstance(value, T.args[i]).ok /\ isinstance(value, T.args[i]).val}

\* A value that is not None was serialized by serialize_union.
SerializedUnion ==
  /\ codec.phase = "roundtrip"
  /\ codec.type.k = "Union"
  /\ ~serializer_is_none(codec.type)
  /\ codec.value # PNone
  /\ Matching(codec.type, codec.value) # {}

\* C23: serialize_union gives a value that is not None to the serializer of
\* the first alternative whose class the value belongs to, and returns the
\* value as it is when that alternative has no serializer.
C23_FirstMatchingSerializer ==
  SerializedUnion
  => LET m == Matching(codec.type, codec.value)
         T == codec.type.args[CHOOSE i \in m : \A j \in m : i <= j]
     IN codec.serialized =
          IF serializer_is_none(T) THEN Return(codec.value)
          ELSE serialize(T, codec.value)

\* ------------------------------------- properties of the extremum sub-query
\* The conditions of the request on a grouping field of the pending
\* extremum.
GroupFieldConditions(pending, conditions) ==
  SelectSeq(conditions,
            LAMBDA c : \E k \in 1..Len(GroupFields(pending)) :
                          GroupFields(pending)[k] = c.field)

\* An extremum request the handler has answered.
ExtremumAnswered ==
  /\ Handled
  /\ response.kind = "ok"
  /\ GroupBy(request) = <<>>
  /\ PendingOps(filter_fields(request)) # <<>>

\* C24: the rows the grouped sub-query of f[max]=g1,... designates satisfy
\* every condition the request places on a grouping field: the maximum is
\* taken over those rows only.
C24_MaximumOverFilteredRows ==
  ExtremumAnswered
  => LET conds == Conditions(filter_fields(request))
         pend == PendingOps(filter_fields(request))
     IN \A i \in 1..Len(pend) :
           \A chosen \in MaxSubquery(Rows(table), pend[i], conds) :
              chosen \subseteq Where(Rows(table), GroupFieldConditions(pend[i], conds))

\* ----------------------------------------- properties of the derivations
\* A derivation of gena has come to its end.
DerivationEnded ==
  /\ codec.phase \in {"done", "raised"}
  /\ "side" \in DOMAIN codec

\* C25: a derivation of one deriver returns a codec exactly when the other
\* deriver, given the same type and registry, returns one.
C25_SerializerMirrorsDeserializer ==
  DerivationEnded
  => ((codec.phase = "done")
      <=> IF codec.side = "deserializer"
          THEN serializer_derived(codec.root, codec.known)
          ELSE deserializer_derived(codec.root, codec.known))

\* ------------------------------------------- properties of the registries
RECURSIVE Reach(_, _)
\* The closures the field table of closure u refers to, directly or
\* through other closures (d: how many steps are left to follow).
Reach(S, d) ==
  IF d = 0 THEN S
  ELSE Reach(S \cup UNION {codec.stubs[u].uses : u \in S}, d - 1)

\* C26: when a derivation has failed, every closure a registry holds for a
\* record type has its field table filled.
C26_NoStubAfterFailure ==
  (codec.phase = "raised" /\ "ids" \in DOMAIN codec)
  => \A r \in 1..Len(codec.ids) :
        \A q \in codec.ids[r] : codec.stubs[q[2]].status = "complete"

\* C27: after derivations that share a registry, every closure the
\* registry holds, and every closure one of them refers to, has its field
\* table filled.
C27_RegisteredCodecsComplete ==
  DerivationEnded
  => \A q \in codec.ids[1] :
        \A u \in Reach({q[2]}, Len(codec.stubs)) :
           codec.stubs[u].status = "complete"

\* ------------------------------------------- properties of update and fetch
\* C28: an update addressed to identifier i leaves every other row as it
\* was; when it is accepted it answers with the record of identifier i, and
\* the columns its body does not name keep their value.
C28_UpdateTouchesOnlyItsRecord ==
  [][Answers("update")
     => LET i == IntOf(request'.id)
        IN /\ DOMAIN table' = DOMAIN table
           /\ \A j \in DOMAIN table \ {i} : table'[j] = table[j]
           /\ response'.kind = "ok"
              => /\ response'.items[1].id = i
                 /\ \A c \in DOMAIN ColumnDefaults \ DOMAIN request'.body :
                       table'[i][c] = table[i][c]]_vars

\* A batch fetch by ids has been answered with items.
BatchAnswered ==
  /\ Handled
  /\ request.handler \in {"get_by_ids", "find_by_ids"}
  /\ response.kind = "ok"

\* The ids the request lists that exist in the store it asks.
RequestedExisting ==
  {request.body.ids[k] : k \in 1..Len(request.body.ids)}
  \cap (IF request.handler = "get_by_ids" THEN DOMAIN table ELSE DOMAIN id2ent)

\* The ids of the entries of items: a list of records, or a dictionary
\* keyed by id.
ItemIds ==
  IF request.handler = "get_by_ids" /\ ~ArgHas(request.args, "fields")
  THEN {response.items[k].id : k \in 1..Len(response.items)}
  ELSE DOMAIN response.items

\* C29: a batch fetch by ids answers with one entry for every listed id
\* that exists and no other entry, and total is the number of entries.
C29_TotalCountsItems ==
  BatchAnswered
  => /\ response.total = Cardinality(DOMAIN response.items)
     /\ ItemIds = RequestedExisting
     /\ Cardinality(ItemIds) = Cardinality(DOMAIN response.items)

\* ----------------------------------------------------- Client.upsert
\* Clients of one endpoint, each calling upsert once with the same record
\* that has no id.  A request is handled by the server from start to end;
\* the requests of different clients interleave.
MaxClients == 3

Clients == 1..MaxClients

\* The records upserted (filter_none has dropped the fields that are None).
UpsertRecords == {[v |-> 2, status |-> "a"], [v |-> 1, status |-> "b"], [v |-> 2]}

\* requests.get(endpoint, params=record): the query string of the record.
ParamsOf(record) ==
  LET tok(n) == IF n = "v"
                THEN <<IntLiterals[CHOOSE i \in 1..Len(IntValues) : IntValues[i] = record.v]>>
                ELSE <<record.status>>
      names == SelectSeq(<<"v", "status">>, LAMBDA n : n \in DOMAIN record)
  IN [i \in 1..Len(names) |-> P(<<names[i]>>, tok(names[i]))]

\* requests.post(endpoint, json=record): the JSON body of the record.
JsonOf(record) ==
  [n \in DOMAIN record |->
     IF n = "v" THEN JInt(record.v) ELSE JStr(<<record.status>>)]

\* The rows of the store the record matches.
MatchingRows(record) ==
  {r \in Rows(table) : \A n \in DOMAIN record : r[n] = record[n]}

InitUpsert ==
  /\ table \in {<<>>, <<[v |-> 1, status |-> "a"]>>}
  /\ request = <<>>
  /\ response = NoResponse
  /\ api = generate_api(name2field, NotSupplied)
  /\ codec = NoCodec
  /\ \E record \in UpsertRecords :
        clients = [c \in Clients |-> [pc |-> "get", record |-> record]]

\* upsert, first request: GET with the record as filter.  assert_resp and
\* the assertion on the number of items make the call fail.
UpsertGet(c) ==
  /\ clients[c].pc = "get"
  /\ \E r \in get(table, ParamsOf(clients[c].record)) :
        clients' = [clients EXCEPT ![c].pc =
                      IF r.kind # "ok" THEN "failed"
                      ELSE IF Len(r.items) = 0 THEN "post"
                      ELSE IF Len(r.items) = 1 THEN "done"
                      ELSE "failed"]
  /\ UNCHANGED <<table, request, response, api, codec>>

\* upsert, second request: nothing was found, POST creates the record.
UpsertPost(c) ==
  /\ clients[c].pc = "post"
  /\ LET out == create(api, table, JsonOf(clients[c].record))
     IN /\ table' = out.table
        /\ clients' = [clients EXCEPT ![c].pc =
                         IF out.response.kind = "ok" THEN "done" ELSE "failed"]
  /\ UNCHANGED <<request, response, api, codec>>

NextUpsert ==
  \E c \in Clients : UpsertGet(c) \/ UpsertPost(c)

SpecUpsert == InitUpsert /\ [][NextUpsert]_vars

\* C30: however the upsert calls of the clients interleave, the store never
\* holds more than one record matching the upserted record, no call fails,
\* and when all calls have returned it holds exactly one.
C30_UpsertNeverDuplicates ==
  clients # NoClients
  => LET record == clients[1].record
     IN /\ Cardinality(MatchingRows(record)) <= 1
        /\ \A c \in Clients : clients[c].pc # "failed"
        /\ (\A c \in Clients : clients[c].pc = "done")
           => Cardinality(MatchingRows(record)) = 1

====
